---- MODULE Spec2Model ----
(***************************************************************************)
(* A model of the p2pool-go consensus core: compact targets, the share     *)
(* difficulty retarget, PPLNS payouts, share validation and the share      *)
(* chain.                                                                  *)
(*                                                                         *)
(* Numbers.  The program computes targets with math/big on 256-bit values. *)
(* The model keeps the byte-level compact encoding of the program (base    *)
(* 256, three mantissa bytes, sign bit 0x00800000) and scales only the     *)
(* exponent of the largest share target, from 0x20 to 0x04, so that every  *)
(* value the retarget computes stays below 2^31.                           *)
(*                                                                         *)
(* Pointers.  A *big.Int field is modelled as a sequence: Nil (<<>>) is    *)
(* the nil pointer and <<v>> points to the value v.                        *)
(***************************************************************************)
EXTENDS Integers, Sequences, FiniteSets, TLC

VARIABLES
    dwindow,    \* difficulty: the shares handed to NextTarget, newest first
    dresult,    \* difficulty: what NextTarget returned for dwindow
    pwindow,    \* payouts: Window.shares, newest first
    pcalc,      \* payouts: the Calculator (finderFeePercent, dustThresholdSats)
    preward,    \* payouts: totalReward
    pfinder,    \* payouts: finderAddress
    payouts,    \* payouts: the list CalculatePayouts returned
    store,      \* chain: the share store, hash -> share
    tip,        \* chain: the tip pointer, Nil while the chain is empty
    now,        \* chain: the node's clock, time.Now() in Unix seconds
    lastShare,  \* chain: the share of the call that has not returned yet
    lastResult, \* chain: what ValidateShare returned for lastShare
    mcoinbase,  \* merkle: the coinbase hash
    mtxids,     \* merkle: the non-coinbase txids, internal byte order
    mbranches,  \* merkle: what ComputeMerkleBranches returned
    mroot,      \* merkle: what ComputeMerkleRoot returned for the branches
    mfull,      \* merkle: what ComputeFullMerkleRoot returned
    syncReq,    \* sync: the request the server decoded, Nil when none
    syncSeen,   \* sync: the request as the installed handler saw it
    syncResp,   \* sync: the response the server wrote
    bestBlock,  \* work generator: the block bitcoind builds on, as the hash its templates name
    currentTemplate, \* work generator: Generator.currentTemplate, Nil before the first fetch
    jobCounter, \* work generator: Generator.jobCounter
    jobs,       \* work generator: Generator.jobs, the job cache, from job id to job
    genCalls,   \* work generator: the GenerateJob calls between taking a sequence number and storing the job
    stored,     \* work generator: the sequence numbers of every job storeJob was called with
    jobCh,      \* work generator: Generator.jobCh, oldest job first
    lastJobTime, \* work generator: the seconds since Generator.lastJobTime, Nil for the zero time
    cleanDelivered, \* work generator: the block hashes a clean job was sent on jobCh for
    boltFile,   \* share store: the database file, Nil while the path does not exist
    boltOpen,   \* share store: whether a BoltStore holds the file open
    boltCall,   \* share store: the last operation, its arguments and what it returned
    boltSeen,   \* share store: what the read operations returned just before Close
    extranonceCounter, \* Stratum server: the source of extranonce1 values
    sessions,   \* Stratum server: the sessions, from connection to [subscribed, extranonce1]
    subscribed, \* Stratum server: the extranonce1 of every mining.subscribe response, in order
    pcPrefix,   \* prefixConn: the bytes of prefix not read yet
    pcRead,     \* prefixConn: the read flag
    pcStream,   \* prefixConn: the bytes the underlying connection has not delivered yet
    pcWant,     \* prefixConn: Nil without a connection, else the prefix followed by the stream
    pcGot,      \* prefixConn: the bytes the Read calls returned so far
    pcEOF,      \* prefixConn: whether a Read returned io.EOF
    cmpIn,      \* compact encoding: the compact value given, Nil when none
    cmpTarget,  \* compact encoding: the target CompactToTarget made of it
    cmpOut,     \* compact encoding: the compact value TargetToCompact made of that target
    slTaken,    \* singleConnListener: whether the connection was handed out
    slDone,     \* singleConnListener: whether the done channel is closed
    slFirst,    \* singleConnListener: the caller of the first Accept, Nil before it
    slBlocked,  \* singleConnListener: the callers waiting in Accept
    slResults,  \* singleConnListener: what the Accept calls returned, as [caller, result]
    slCloses,   \* singleConnListener: the number of Close calls that returned
    slPanic,    \* singleConnListener: whether a call panicked
    rdClock,    \* sync round: seconds elapsed
    srvPc,      \* sync round: where handleStream is
    srvDeadline, \* sync round: the deadline of the stream handleStream serves, Nil if none
    remHalfClosed, \* sync round: whether the requesting peer closed its write side
    cliPc,      \* sync round: where RequestLocator is
    cliDeadline, \* sync round: the deadline of the stream RequestLocator opened, Nil if none
    remClosed,  \* sync round: whether the serving peer wrote its response and closed
    gsQueue,    \* gossip: the incoming-share queue, each share named by its source
    gsLimiters, \* gossip: peerLimiters, the tokens left per source
    gsClock,    \* gossip: tenths of a second elapsed
    gsPassed,   \* gossip: per source, the messages decoded and enqueued so far
    gsDropped,  \* gossip: whether a share was dropped at a full queue
    sbSeeds,    \* submission: the seeds of the template transactions, Nil before a template
    sbTmpl,     \* submission: the block template, Nil before it is fetched
    sbJob,      \* submission: the job built from the template, Nil before it is built
    sbHeader,   \* submission: the header handed to VerifyMerkleRoot, Nil before a submission
    sbCoinbase, \* submission: the coinbase bytes of the submission
    sbTamper,   \* submission: the header byte replaced before verification, 0 for none
    sbVerify,   \* submission: what VerifyMerkleRoot returned, Nil before a submission
    shShare,    \* share: the share with its header and its cached hash, Nil before it is made
    shReturned, \* share: what the last call of Hash returned, Nil before the first
    delivered,  \* job channel: the jobs received from jobCh, oldest first
    poClock,    \* poll loop: seconds since the loop started, Nil before it starts
    consecutiveFailures, \* poll loop: consecutiveFailures
    lastFailureTime, \* poll loop: lastFailureTime, Nil before the first failure
    poIssued,   \* poll loop: the last RPC issued: when, and the failure count and time it found
    poOutcome,  \* poll loop: what the last iteration did
    rfSinceClean, \* refresh: seconds since the last clean job was sent, Nil before the first
    rfPoll,     \* refresh: what the last successful poll found and did, Nil before the first
    rfFailed,   \* refresh: whether the last poll failed
    peerConnected, \* notifier: the peer ids pending in the peer-connected channel
    pnEvents,   \* notifier: the number of Connected callbacks that returned
    pnDropped,  \* notifier: whether a connection event was dropped
    wrData,     \* sync wire: the request bytes the server read, Nil before a stream opens
    wrReadErr,  \* sync wire: whether the read of the request ended in an error
    wrStrict,   \* sync wire: whether the decoder in use refuses trailing bytes
    wrSrvPc,    \* sync wire: where handleStream is
    wrHandled,  \* sync wire: the requests handed to the handler
    wrWritten,  \* sync wire: the bytes handleStream wrote to the stream
    wrResult,   \* sync wire: what RequestLocator returned, Nil before it returns
    cxCancelled, \* shutdown: whether the root context is cancelled
    cxPollPc,   \* shutdown: where pollLoop is
    cxTick,     \* shutdown: whether a tick is pending in ticker.C
    cxFailures, \* shutdown: pollLoop's consecutiveFailures
    cxRpcCalls, \* shutdown: the get_block_template calls issued
    cxReadPc,   \* shutdown: where readLoop is
    cxPending,  \* shutdown: the messages pending in the subscription
    cxEnqueued, \* shutdown: the shares readLoop put on the incoming channel
    snChain,    \* job snapshot: the miners of the shares of the main chain, oldest first
    snCall,     \* job snapshot: the payout list a GenerateJob call holds before it reads the tip, Nil outside a call
    snJobs,     \* job snapshot: the jobs GenerateJob returned, as [payouts, prevShareHash]
    nmTarget,   \* normalisation: the target given, Nil when none
    nmOnce,     \* normalisation: the target after one compact round trip
    nmTwice     \* normalisation: the target after two compact round trips

diffVars == <<dwindow, dresult>>
payVars == <<pwindow, pcalc, preward, pfinder, payouts>>
chainVars == <<store, tip, now, lastShare, lastResult>>
merkleVars == <<mcoinbase, mtxids, mbranches, mroot, mfull>>
syncVars == <<syncReq, syncSeen, syncResp>>
genVars == <<bestBlock, currentTemplate, jobCounter, jobs, genCalls, stored, jobCh, lastJobTime, cleanDelivered>>
boltVars == <<boltFile, boltOpen, boltCall, boltSeen>>
stratumVars == <<extranonceCounter, sessions, subscribed, pcPrefix, pcRead, pcStream, pcWant, pcGot, pcEOF>>
compactVars == <<cmpIn, cmpTarget, cmpOut>>
listenerVars == <<slTaken, slDone, slFirst, slBlocked, slResults, slCloses, slPanic>>
roundVars == <<rdClock, srvPc, srvDeadline, remHalfClosed, cliPc, cliDeadline, remClosed>>
gossipVars == <<gsQueue, gsLimiters, gsClock, gsPassed, gsDropped>>
submitVars == <<sbSeeds, sbTmpl, sbJob, sbHeader, sbCoinbase, sbTamper, sbVerify>>
shareVars == <<shShare, shReturned>>
emitVars == <<delivered>>
backoffVars == <<poClock, consecutiveFailures, lastFailureTime, poIssued, poOutcome>>
refreshVars == <<rfSinceClean, rfPoll>>
outageVars == <<rfFailed>>
notifyVars == <<peerConnected, pnEvents, pnDropped>>
wireVars == <<wrData, wrReadErr, wrStrict, wrSrvPc, wrHandled, wrWritten, wrResult>>
cancelVars == <<cxCancelled, cxPollPc, cxTick, cxFailures, cxRpcCalls, cxReadPc, cxPending, cxEnqueued>>
snapVars == <<snChain, snCall, snJobs>>
normVars == <<nmTarget, nmOnce, nmTwice>>
nodeVars == <<merkleVars, syncVars, genVars, boltVars, stratumVars, compactVars, listenerVars, roundVars, gossipVars, submitVars, shareVars, emitVars, backoffVars, refreshVars, outageVars, notifyVars, wireVars, cancelVars, snapVars, normVars>>
vars == <<dwindow, dresult, pwindow, pcalc, preward, pfinder, payouts,
          store, tip, now, lastShare, lastResult,
          mcoinbase, mtxids, mbranches, mroot, mfull,
          syncReq, syncSeen, syncResp,
          bestBlock, currentTemplate, jobCounter, jobs, genCalls, stored, jobCh, lastJobTime, cleanDelivered,
          boltFile, boltOpen, boltCall, boltSeen,
          extranonceCounter, sessions, subscribed, pcPrefix, pcRead, pcStream, pcWant, pcGot, pcEOF,
          cmpIn, cmpTarget, cmpOut,
          slTaken, slDone, slFirst, slBlocked, slResults, slCloses, slPanic,
          rdClock, srvPc, srvDeadline, remHalfClosed, cliPc, cliDeadline, remClosed,
          gsQueue, gsLimiters, gsClock, gsPassed, gsDropped,
          sbSeeds, sbTmpl, sbJob, sbHeader, sbCoinbase, sbTamper, sbVerify,
          shShare, shReturned,
          delivered,
          poClock, consecutiveFailures, lastFailureTime, poIssued, poOutcome,
          rfSinceClean, rfPoll,
          rfFailed,
          peerConnected, pnEvents, pnDropped,
          wrData, wrReadErr, wrStrict, wrSrvPc, wrHandled, wrWritten, wrResult,
          cxCancelled, cxPollPc, cxTick, cxFailures, cxRpcCalls, cxReadPc, cxPending, cxEnqueued,
          snChain, snCall, snJobs,
          nmTarget, nmOnce, nmTwice>>

Nil == <<>>

Min(a, b) == IF a < b THEN a ELSE b
Max(a, b) == IF a > b THEN a ELSE b

(***************************************************************************)
(* pkg/util: compact (nBits) <-> target                                    *)
(***************************************************************************)
RECURSIVE Pow256(_)
Pow256(k) == IF k <= 0 THEN 1 ELSE 256 * Pow256(k - 1)

\* len(absTarget.Bytes()): the number of base-256 digits of n >= 0
RECURSIVE ByteLen(_)
ByteLen(n) == IF n = 0 THEN 0 ELSE 1 + ByteLen(n \div 256)

\* b[i] of the big-endian byte slice of n (i counted from 0), size = len(b)
ByteAt(n, size, i) == (n \div Pow256(size - 1 - i)) % 256

Abs(n) == IF n < 0 THEN 0 - n ELSE n

\* CompactToTarget(compact uint32) *big.Int
CompactToTarget(compact) ==
    LET exponent == compact \div 16777216
        mantissa == compact % 8388608
        target   == IF exponent <= 3
                    THEN mantissa \div Pow256(3 - exponent)
                    ELSE mantissa * Pow256(exponent - 3)
    IN  IF (compact \div 8388608) % 2 = 1 THEN 0 - target ELSE target

\* the mantissa TargetToCompact reads from the bytes b of |target|
CompactMantissa(n, size) ==
    IF size <= 3
    THEN LET RECURSIVE Fold(_)
             Fold(i) == IF i >= size THEN 0
                        ELSE ByteAt(n, size, i) * Pow256(2 - i - (3 - size)) + Fold(i + 1)
         IN  Fold(0)
    ELSE ByteAt(n, size, 0) * 65536 + ByteAt(n, size, 1) * 256 + ByteAt(n, size, 2)

\* TargetToCompact(target *big.Int) uint32, for a non-nil target
TargetToCompact(target) ==
    IF target = 0 THEN 0
    ELSE LET absTarget == Abs(target)
             size0     == ByteLen(absTarget)
             mant0     == CompactMantissa(absTarget, size0)
             high      == (mant0 \div 8388608) % 2 = 1
             mantissa  == IF high THEN mant0 \div 256 ELSE mant0
             size      == IF high THEN size0 + 1 ELSE size0
             compact   == size * 16777216 + (mantissa % 8388608)
         IN  IF target < 0 THEN compact + 8388608 ELSE compact

\* util.CompactToTarget(util.TargetToCompact(t)): the compact round trip
Normalize(t) == CompactToTarget(TargetToCompact(t))

(***************************************************************************)
(* internal/sharechain: difficulty                                         *)
(***************************************************************************)
DifficultyAdjustmentWindow == 72

\* 0x207fffff in the program; here exponent 0x04 and mantissa 0x0fffff
maxShareTargetBits == 4 * 16777216 + 1048575

MaxShareTarget == CompactToTarget(maxShareTargetBits)

\* int64(dc.targetTime.Seconds()) of the calculator the node constructs
TargetTimeSeconds == 30

\* big.Int: x * a / e.  The quotient is computed from x = q*e + r so that
\* no intermediate product leaves the model's integers.
BigMulDiv(x, a, e) == (x \div e) * a + ((x % e) * a) \div e

\* the share-target test of the trim loop
OutOfRegime(st, currentTarget) ==
    \/ st = Nil
    \/ st[1] = 0
    \/ st[1] > currentTarget * 4
    \/ st[1] < currentTarget \div 4

\* a window that keeps every share whatever its target
TrimWindow_KeepsAll(window, currentTarget) == window

\* window = window[:i] at the first share from index 1 (0-based) that is out
\* of the newest share's regime
TrimWindow(window, currentTarget) ==
    LET bad == {i \in 2..Len(window) : OutOfRegime(window[i].ShareTarget, currentTarget)}
    IN  IF bad = {} THEN window
        ELSE SubSeq(window, 1, (CHOOSE i \in bad : \A j \in bad : i <= j) - 1)

ActualTime(window) ==
    LET d == window[1].Timestamp - window[Len(window)].Timestamp
    IN  IF d <= 0 THEN 1 ELSE d

\* a retarget that counts the shares of the window, not the intervals
ExpectedTime_CountsShares(window) ==
    LET e == TargetTimeSeconds * Len(window)
    IN  IF e <= 0 THEN 1 ELSE e

ExpectedTime(window) ==
    LET e == TargetTimeSeconds * (Len(window) - 1)
    IN  IF e <= 0 THEN 1 ELSE e

\* clamp to 4x adjustment per calculation
ClampAdjust(newTarget, currentTarget) ==
    LET maxAdjust == currentTarget * 4
        minAdjust == currentTarget \div 4
        t1 == IF newTarget > maxAdjust THEN maxAdjust ELSE newTarget
    IN  IF t1 < minAdjust THEN minAdjust ELSE t1

\* a retarget that forgets the global limit
ClampGlobal_NoLimit(newTarget) == newTarget

\* clamp to global limits
ClampGlobal(newTarget) ==
    IF newTarget > MaxShareTarget THEN MaxShareTarget ELSE newTarget

\* DifficultyCalculator.NextTarget(shares), shares newest first
NextTarget(shares) ==
    IF Len(shares) < 2 THEN MaxShareTarget
    ELSE LET capped == IF Len(shares) > DifficultyAdjustmentWindow
                       THEN SubSeq(shares, 1, DifficultyAdjustmentWindow)
                       ELSE shares
             newest == capped[1]
         IN  IF newest.ShareTarget = Nil \/ newest.ShareTarget[1] = 0
             THEN MaxShareTarget
             ELSE LET currentTarget == newest.ShareTarget[1]
                      window == TrimWindow(capped, currentTarget)
                  IN  IF Len(window) < 2
                      THEN Normalize(currentTarget)
                      ELSE Normalize(ClampGlobal(ClampAdjust(
                               BigMulDiv(currentTarget, ActualTime(window), ExpectedTime(window)),
                               currentTarget)))

(***************************************************************************)
(* internal/pplns: window weights and payouts                              *)
(***************************************************************************)
\* Go's string order on the addresses of the model, smallest first
AddrOrder == <<"alice", "bob", "carol", "dave">>

AddrRank(a) == CHOOSE i \in 1..Len(AddrOrder) : AddrOrder[i] = a

AddrLess(a, b) == AddrRank(a) < AddrRank(b)

\* DefaultMaxTarget(): the max target the node gives its windows
DefaultMaxTarget == CompactToTarget(maxShareTargetBits)

\* Window.ShareWeight(share)
ShareWeight(share, maxTarget) ==
    IF share.ShareTarget = Nil \/ share.ShareTarget[1] = 0
    THEN 1
    ELSE maxTarget \div share.ShareTarget[1]

\* a miner-weights loop in which a later share replaces the miner's weight
RECURSIVE MinerWeights_LastShareWins(_, _)
MinerWeights_LastShareWins(shares, maxTarget) ==
    IF shares = <<>> THEN <<>>
    ELSE LET n       == Len(shares)
             weights == MinerWeights_LastShareWins(SubSeq(shares, 1, n - 1), maxTarget)
             addr    == shares[n].MinerAddress
             weight  == ShareWeight(shares[n], maxTarget)
         IN  IF addr \in DOMAIN weights
             THEN [weights EXCEPT ![addr] = weight]
             ELSE weights @@ (addr :> weight)

\* Window.MinerWeights(): the shares are visited first to last
RECURSIVE MinerWeights(_, _)
MinerWeights(shares, maxTarget) ==
    IF shares = <<>> THEN <<>>
    ELSE LET n       == Len(shares)
             weights == MinerWeights(SubSeq(shares, 1, n - 1), maxTarget)
             addr    == shares[n].MinerAddress
             weight  == ShareWeight(shares[n], maxTarget)
         IN  IF addr \in DOMAIN weights
             THEN [weights EXCEPT ![addr] = @ + weight]
             ELSE weights @@ (addr :> weight)

\* Window.TotalWeight()
RECURSIVE TotalWeight(_, _)
TotalWeight(shares, maxTarget) ==
    IF shares = <<>> THEN 0
    ELSE TotalWeight(Tail(shares), maxTarget) + ShareWeight(Head(shares), maxTarget)

\* sort.Strings over the keys of a map
RECURSIVE SortedAddresses(_)
SortedAddresses(set) ==
    IF set = {} THEN <<>>
    ELSE LET first == CHOOSE a \in set : \A b \in set \ {a} : AddrLess(a, b)
         IN  <<first>> \o SortedAddresses(set \ {first})

\* payouts[addr] += x on a Go map: a missing key reads as 0
MapAdd(m, addr, x) ==
    IF addr \in DOMAIN m THEN [m EXCEPT ![addr] = @ + x] ELSE m @@ (addr :> x)

RECURSIVE MapSum(_)
MapSum(m) ==
    IF DOMAIN m = {} THEN 0
    ELSE LET a == CHOOSE k \in DOMAIN m : TRUE
         IN  m[a] + MapSum([k \in DOMAIN m \ {a} |-> m[k]])

\* int64(float64(totalReward) * c.finderFeePercent / 100.0).  The fee
\* percentage is held in half percents (1 = 0.5%), all of which float64
\* represents exactly; on the rewards of the model the float64 product and
\* quotient are exact up to the truncation.
FinderFee(totalReward, halfPercents) == (totalReward * halfPercents) \div 200

\* a per-miner loop that keeps the miners whose payout is zero
RECURSIVE ProportionalPayouts_KeepsZero(_, _, _, _)
ProportionalPayouts_KeepsZero(addresses, minerWeights, totalWeight, distributableReward) ==
    IF addresses = <<>> THEN <<>>
    ELSE LET n      == Len(addresses)
             before == ProportionalPayouts_KeepsZero(SubSeq(addresses, 1, n - 1), minerWeights,
                                                     totalWeight, distributableReward)
             addr   == addresses[n]
             amount == (distributableReward * minerWeights[addr]) \div totalWeight
         IN  before @@ (addr :> amount)

\* the per-miner loop: payout = distributableReward * weight / totalWeight,
\* kept when positive, visiting the sorted addresses.  (payout <=
\* distributableReward, so the IsInt64 clamp never applies.)
RECURSIVE ProportionalPayouts(_, _, _, _)
ProportionalPayouts(addresses, minerWeights, totalWeight, distributableReward) ==
    IF addresses = <<>> THEN <<>>
    ELSE LET n      == Len(addresses)
             before == ProportionalPayouts(SubSeq(addresses, 1, n - 1), minerWeights,
                                           totalWeight, distributableReward)
             addr   == addresses[n]
             amount == (distributableReward * minerWeights[addr]) \div totalWeight
         IN  IF amount > 0 THEN before @@ (addr :> amount) ELSE before

\* add finder fee to finder's payout
AddFinderFee(p, finderAddress, finderFee) ==
    IF finderAddress # "" /\ finderFee > 0 THEN MapAdd(p, finderAddress, finderFee) ELSE p

\* a remainder step that has no fallback when no finder is given
AddRemainder_FinderOnly(p, addresses, remainder, finderAddress) ==
    IF remainder > 0 /\ finderAddress # ""
    THEN MapAdd(p, finderAddress, remainder)
    ELSE p

\* a remainder step that credits the last miner when no finder is given
AddRemainder_ToLastMiner(p, addresses, remainder, finderAddress) ==
    IF remainder > 0
    THEN IF finderAddress # "" THEN MapAdd(p, finderAddress, remainder)
         ELSE IF Len(addresses) > 0 THEN MapAdd(p, addresses[Len(addresses)], remainder)
         ELSE p
    ELSE p

\* handle rounding remainder: give to finder (or first miner)
AddRemainder(p, addresses, remainder, finderAddress) ==
    IF remainder > 0
    THEN IF finderAddress # "" THEN MapAdd(p, finderAddress, remainder)
         ELSE IF Len(addresses) > 0 THEN MapAdd(p, addresses[1], remainder)
         ELSE p
    ELSE p

\* a dust test that does not spare the finder
DustAddresses_FinderToo(p, dustThresholdSats, finderAddress) ==
    {addr \in DOMAIN p : p[addr] < dustThresholdSats}

\* the addresses collected by the dust loop
DustAddresses(p, dustThresholdSats, finderAddress) ==
    {addr \in DOMAIN p : p[addr] < dustThresholdSats /\ addr # finderAddress}

\* remove dust payouts and give them to the finder, or to the first address
\* of the sorted list that still has a payout
ConsolidateDust(p, addresses, dustThresholdSats, finderAddress) ==
    LET dustAddresses == DustAddresses(p, dustThresholdSats, finderAddress)
        dustTotal     == MapSum([a \in dustAddresses |-> p[a]])
        kept          == [a \in DOMAIN p \ dustAddresses |-> p[a]]
        left          == {i \in 1..Len(addresses) : addresses[i] \in DOMAIN kept}
    IN  IF Cardinality(dustAddresses) < Cardinality(DOMAIN p)
        THEN IF dustTotal > 0
             THEN IF finderAddress # "" THEN MapAdd(kept, finderAddress, dustTotal)
                  ELSE IF left # {}
                       THEN MapAdd(kept, addresses[CHOOSE i \in left : \A j \in left : i <= j],
                                   dustTotal)
                       ELSE kept
             ELSE kept
        ELSE p

\* the less function of the final sort.Slice
PayoutLess(x, y) ==
    IF x.Amount # y.Amount THEN x.Amount > y.Amount ELSE AddrLess(x.Address, y.Address)

\* the entries of the map, sorted by amount descending, then address
RECURSIVE SortedResult(_)
SortedResult(p) ==
    IF DOMAIN p = {} THEN <<>>
    ELSE LET entries == {[Address |-> a, Amount |-> p[a]] : a \in DOMAIN p}
             first   == CHOOSE x \in entries : \A y \in entries \ {x} : PayoutLess(x, y)
         IN  <<first>> \o SortedResult([a \in DOMAIN p \ {first.Address} |-> p[a]])

\* the payout map before the dust consolidation
AllocatedPayouts(shares, maxTarget, calc, totalReward, finderAddress) ==
    LET finderFee     == FinderFee(totalReward, calc.finderFeeHalfPercents)
        distributable == totalReward - finderFee
        minerWeights  == MinerWeights(shares, maxTarget)
        totalWeight   == TotalWeight(shares, maxTarget)
        addresses     == SortedAddresses(DOMAIN minerWeights)
        proportional  == ProportionalPayouts(addresses, minerWeights, totalWeight, distributable)
        distributed   == MapSum(proportional)
                         + (IF finderAddress # "" /\ finderFee > 0 THEN finderFee ELSE 0)
    IN  AddRemainder(AddFinderFee(proportional, finderAddress, finderFee),
                     addresses, totalReward - distributed, finderAddress)

\* Calculator.CalculatePayouts(window, totalReward, finderAddress)
CalculatePayouts(shares, maxTarget, calc, totalReward, finderAddress) ==
    IF Len(shares) = 0 \/ totalReward <= 0 THEN <<>>
    ELSE IF TotalWeight(shares, maxTarget) = 0 THEN <<>>
    ELSE SortedResult(ConsolidateDust(
             AllocatedPayouts(shares, maxTarget, calc, totalReward, finderAddress),
             SortedAddresses(DOMAIN MinerWeights(shares, maxTarget)),
             calc.dustThresholdSats, finderAddress))

(***************************************************************************)
(* Payout specification: CalculatePayouts applied to bounded windows       *)
(***************************************************************************)
MaxPWin == 3

\* the miners of the windows; "dave" never mines and can only be the finder
PMiners == {"alice", "bob", "carol"}

\* share targets: nil (weight 1), weight 1, weight 3 and weight 0
PTargets == {Nil, <<DefaultMaxTarget>>, <<DefaultMaxTarget \div 3>>, <<DefaultMaxTarget * 2>>}

PShares == {[MinerAddress |-> a, ShareTarget |-> st] : a \in PMiners, st \in PTargets}

PRewards == {0, 7, 1000}

\* 0%, 0.5%, 100%
PFees == {0, 1, 200}

PDust == {0, 4, 546}

PFinders == {"", "alice", "carol", "dave"}

PIdle ==
    /\ pwindow = <<>>
    /\ pcalc = [finderFeeHalfPercents |-> 0, dustThresholdSats |-> 0]
    /\ preward = 0
    /\ pfinder = ""
    /\ payouts = <<>>

DIdle ==
    /\ dwindow = <<>>
    /\ dresult = 0

\* no merkle root is being computed
MIdle ==
    /\ mcoinbase = <<>>
    /\ mtxids = <<>>
    /\ mbranches = <<>>
    /\ mroot = <<>>
    /\ mfull = <<>>

\* no sync stream is open
SIdle ==
    /\ syncReq = Nil
    /\ syncSeen = Nil
    /\ syncResp = Nil

\* a generator as NewGenerator returns it
GIdle ==
    /\ bestBlock = 1
    /\ currentTemplate = Nil
    /\ jobCounter = 0
    /\ jobs = <<>>
    /\ genCalls = {}
    /\ stored = {}
    /\ jobCh = <<>>
    /\ lastJobTime = Nil
    /\ cleanDelivered = {}

\* no database file, no open store
BIdle ==
    /\ boltFile = Nil
    /\ boltOpen = FALSE
    /\ boltCall = Nil
    /\ boltSeen = Nil

\* a Stratum server without connections
TIdle ==
    /\ extranonceCounter = 0
    /\ sessions = <<>>
    /\ subscribed = <<>>
    /\ pcPrefix = <<>>
    /\ pcRead = FALSE
    /\ pcStream = <<>>
    /\ pcWant = Nil
    /\ pcGot = <<>>
    /\ pcEOF = FALSE

\* no conversion under way
KIdle ==
    /\ cmpIn = Nil
    /\ cmpTarget = Nil
    /\ cmpOut = Nil

\* a listener nobody has called yet
LIdle ==
    /\ slTaken = FALSE
    /\ slDone = FALSE
    /\ slFirst = Nil
    /\ slBlocked = {}
    /\ slResults = {}
    /\ slCloses = 0
    /\ slPanic = FALSE

\* no sync round in progress
RIdle ==
    /\ rdClock = 0
    /\ srvPc = "idle"
    /\ srvDeadline = Nil
    /\ remHalfClosed = FALSE
    /\ cliPc = "idle"
    /\ cliDeadline = Nil
    /\ remClosed = FALSE

\* a read loop that has seen no message
OIdle ==
    /\ gsQueue = <<>>
    /\ gsLimiters = <<>>
    /\ gsClock = 0
    /\ gsPassed = <<>>
    /\ gsDropped = FALSE

\* no template fetched and nothing submitted
UIdle ==
    /\ sbSeeds = Nil
    /\ sbTmpl = Nil
    /\ sbJob = Nil
    /\ sbHeader = Nil
    /\ sbCoinbase = <<>>
    /\ sbTamper = 0
    /\ sbVerify = Nil

\* no share made
HIdle ==
    /\ shShare = Nil
    /\ shReturned = Nil

\* no job received yet
EIdle ==
    /\ delivered = <<>>

\* the poll loop has not started
FIdle ==
    /\ poClock = Nil
    /\ consecutiveFailures = 0
    /\ lastFailureTime = Nil
    /\ poIssued = Nil
    /\ poOutcome = ""

\* no poll recorded
XIdle ==
    /\ rfSinceClean = Nil
    /\ rfPoll = Nil

\* no failed poll
YIdle ==
    /\ rfFailed = FALSE

\* no connection event yet
WIdle ==
    /\ peerConnected = <<>>
    /\ pnEvents = 0
    /\ pnDropped = FALSE

\* no sync stream was opened
ZIdle ==
    /\ wrData = Nil
    /\ wrReadErr = FALSE
    /\ wrStrict = FALSE
    /\ wrSrvPc = "idle"
    /\ wrHandled = <<>>
    /\ wrWritten = <<>>
    /\ wrResult = Nil

\* no loop was started and the root context is live
AIdle ==
    /\ cxCancelled = FALSE
    /\ cxPollPc = "idle"
    /\ cxTick = FALSE
    /\ cxFailures = 0
    /\ cxRpcCalls = 0
    /\ cxReadPc = "idle"
    /\ cxPending = 0
    /\ cxEnqueued = 0

\* an empty share chain and no job
JIdle ==
    /\ snChain = <<>>
    /\ snCall = Nil
    /\ snJobs = {}

\* no target is being normalised
QIdle ==
    /\ nmTarget = Nil
    /\ nmOnce = Nil
    /\ nmTwice = Nil

\* the work generator, the sync protocol and the Stratum server at rest
NodeIdle == MIdle /\ SIdle /\ GIdle /\ BIdle /\ TIdle /\ KIdle /\ LIdle /\ RIdle /\ OIdle /\ UIdle /\ HIdle /\ EIdle /\ FIdle /\ XIdle /\ YIdle /\ WIdle /\ ZIdle /\ AIdle /\ JIdle /\ QIdle

\* an empty chain on which nothing is called
CIdle ==
    /\ store = <<>>
    /\ tip = Nil
    /\ now = 0
    /\ lastShare = Nil
    /\ lastResult = ""

\* a calculator, a reward and a finder are fixed; the window is still empty
PInit ==
    /\ pwindow = <<>>
    /\ pcalc \in [finderFeeHalfPercents : PFees, dustThresholdSats : PDust]
    /\ preward \in PRewards
    /\ pfinder \in PFinders
    /\ payouts = CalculatePayouts(pwindow, DefaultMaxTarget, pcalc, preward, pfinder)
    /\ DIdle
    /\ CIdle
    /\ NodeIdle

\* CalculatePayouts is called on the window grown by one share
PExtend(share) ==
    /\ Len(pwindow) < MaxPWin
    /\ pwindow' = Append(pwindow, share)
    /\ payouts' = CalculatePayouts(pwindow', DefaultMaxTarget, pcalc, preward, pfinder)
    /\ UNCHANGED <<pcalc, preward, pfinder, diffVars, chainVars, nodeVars>>

\* the same shares reach CalculatePayouts with two neighbours exchanged
PSwap(i) ==
    /\ i < Len(pwindow)
    /\ pwindow[i] # pwindow[i + 1]
    /\ pwindow' = [pwindow EXCEPT ![i] = pwindow[i + 1], ![i + 1] = pwindow[i]]
    /\ payouts' = CalculatePayouts(pwindow', DefaultMaxTarget, pcalc, preward, pfinder)
    /\ UNCHANGED <<pcalc, preward, pfinder, diffVars, chainVars, nodeVars>>

PNext ==
    \/ \E share \in PShares : PExtend(share)
    \/ \E i \in 1..MaxPWin : PSwap(i)

SpecPayout == PInit /\ [][PNext]_vars

(***************************************************************************)
(* Payouts: properties                                                     *)
(***************************************************************************)
RECURSIVE PaidSum(_)
PaidSum(list) == IF list = <<>> THEN 0 ELSE Head(list).Amount + PaidSum(Tail(list))

PaidAddresses == {payouts[i].Address : i \in 1..Len(payouts)}

PaidAmount(a) == (CHOOSE x \in {payouts[i] : i \in 1..Len(payouts)} : x.Address = a).Amount

\* CalculatePayouts got past its early returns
PPays == Len(pwindow) > 0 /\ preward > 0 /\ TotalWeight(pwindow, DefaultMaxTarget) > 0

PWeights == MinerWeights(pwindow, DefaultMaxTarget)

\* the payout entries before the dust consolidation
PAllocated == AllocatedPayouts(pwindow, DefaultMaxTarget, pcalc, preward, pfinder)

\* the dust among the entries of the map pre
PDustOf(pre) == {a \in DOMAIN pre : pre[a] < pcalc.dustThresholdSats /\ a # pfinder}

\* who receives the dust: the finder, else the smallest address that is left
PDustReceiverOf(pre) ==
    IF pfinder # "" THEN pfinder
    ELSE CHOOSE a \in DOMAIN pre \ PDustOf(pre) :
             \A b \in DOMAIN pre \ PDustOf(pre) : a = b \/ AddrLess(a, b)

\* C5: for a non-empty window of positive total weight and a positive reward
\* the emitted amounts sum to exactly the reward.
C5_PayoutsSumToReward == PPays => PaidSum(payouts) = preward

\* C5 witness: no finder, a fee, a miner consolidated away as dust, and the
\* emitted amounts still sum to the reward.
C5_Witness ==
    /\ PPays
    /\ pfinder = ""
    /\ FinderFee(preward, pcalc.finderFeeHalfPercents) > 0
    /\ \E a \in PDustOf(PAllocated) : a \notin PaidAddresses
    /\ PaidSum(payouts) = preward

\* C6: with fewer dust entries than payout entries every dust entry is
\* removed and the removed sum goes to the finder (or, with no finder, to
\* the smallest remaining address), the other entries keep their amounts;
\* with only dust entries all entries are kept unchanged; and with a finder
\* that has a payout no other address is emitted below the dust threshold.
C6_DustConsolidation ==
    PPays =>
        LET pre      == PAllocated
            dust     == PDustOf(pre)
            dustSum  == MapSum([a \in dust |-> pre[a]])
            paid     == PaidAddresses
        IN  IF Cardinality(dust) < Cardinality(DOMAIN pre)
            THEN LET receiver == PDustReceiverOf(pre)
                 IN  /\ paid = (DOMAIN pre \ dust) \cup (IF dustSum > 0 THEN {receiver} ELSE {})
                     /\ \A a \in paid :
                           PaidAmount(a) = (IF a \in DOMAIN pre THEN pre[a] ELSE 0)
                                           + (IF a = receiver THEN dustSum ELSE 0)
                     /\ pfinder \in paid =>
                           \A a \in paid \ {pfinder} : PaidAmount(a) >= pcalc.dustThresholdSats
            ELSE /\ paid = DOMAIN pre
                 /\ \A a \in paid : PaidAmount(a) = pre[a]

\* C6 witness: no finder, the smallest address of the window is dust and is
\* removed, and its amount is folded into the smallest address that is left.
C6_Witness ==
    /\ PPays
    /\ pfinder = ""
    /\ LET pre      == PAllocated
           dust     == PDustOf(pre)
           dustSum  == MapSum([a \in dust |-> pre[a]])
       IN  /\ dust # {}
           /\ Cardinality(dust) < Cardinality(DOMAIN pre)
           /\ dustSum > 0
           /\ \E a \in dust : AddrLess(a, PDustReceiverOf(pre))
           /\ PaidAmount(PDustReceiverOf(pre)) = pre[PDustReceiverOf(pre)] + dustSum

\* C7 as stated: two miners of equal aggregate weight that are both emitted
\* receive payouts that differ by at most 1 satoshi.
C7_EqualWeightsWithinOne ==
    \A a, b \in DOMAIN PWeights \cap PaidAddresses :
        PWeights[a] = PWeights[b] =>
            /\ PaidAmount(a) - PaidAmount(b) <= 1
            /\ PaidAmount(b) - PaidAmount(a) <= 1

\* the address the fee, the remainder and the dust go to
PRecipient(a) ==
    \/ a = pfinder
    \/ /\ pfinder = ""
       /\ a \in PaidAddresses
       /\ \A b \in PaidAddresses : a = b \/ AddrLess(a, b)

\* C7 amended: two miners of equal aggregate weight, neither of them the
\* finder nor (with no finder) the smallest emitted address, are both
\* omitted or both emitted with equal payouts.
C7_EqualWeightsEqualUnlessRecipient ==
    PPays =>
        \A a, b \in DOMAIN PWeights :
            (PWeights[a] = PWeights[b] /\ ~PRecipient(a) /\ ~PRecipient(b)) =>
                /\ a \in PaidAddresses <=> b \in PaidAddresses
                /\ a \in PaidAddresses => PaidAmount(a) = PaidAmount(b)

\* C7 witness: three miners of equal weight are emitted; the finder is more
\* than 1 satoshi ahead of the other two, which are paid the same.
C7_Witness ==
    /\ PPays
    /\ pfinder = "alice"
    /\ {"alice", "bob", "carol"} \subseteq DOMAIN PWeights
    /\ {"alice", "bob", "carol"} \subseteq PaidAddresses
    /\ PWeights["alice"] = PWeights["bob"] /\ PWeights["bob"] = PWeights["carol"]
    /\ PaidAmount("alice") > PaidAmount("bob") + 1
    /\ PaidAmount("bob") = PaidAmount("carol")

PayoutsSorted ==
    \A i, j \in 1..Len(payouts) :
        i < j => \/ payouts[i].Amount > payouts[j].Amount
                 \/ /\ payouts[i].Amount = payouts[j].Amount
                    /\ AddrLess(payouts[i].Address, payouts[j].Address)

\* the number of times share x occurs in the list
Occurrences(list, x) == Cardinality({i \in 1..Len(list) : list[i] = x})

\* this step hands CalculatePayouts the same shares in another order
PReordered ==
    /\ pwindow' # pwindow
    /\ \A x \in PShares : Occurrences(pwindow', x) = Occurrences(pwindow, x)

\* C8: the list is sorted by amount descending, then address ascending, and
\* a call on the same shares in another order returns the identical list.
C8_OrderIndependentSorted ==
    [](PayoutsSorted) /\ [][PReordered => payouts' = payouts]_vars

\* C8 witness: a window whose first two shares differ (so they can be
\* exchanged), paid out to two addresses with the same amount.
C8_Witness ==
    /\ PPays
    /\ Len(pwindow) >= 2
    /\ pwindow[1].MinerAddress # pwindow[2].MinerAddress
    /\ pwindow[1].ShareTarget # pwindow[2].ShareTarget
    /\ Len(payouts) >= 2
    /\ payouts[1].Amount = payouts[2].Amount

(***************************************************************************)
(* Difficulty specification: NextTarget applied to bounded windows         *)
(***************************************************************************)
MaxWin == 3

\* share targets of the windows: nil, zero, two bytes, four bytes (twice and
\* more than four times apart), the largest share target and one above it
DTargets == {Nil, <<0>>, <<4660>>, <<19088743>>, <<38177486>>,
             <<MaxShareTarget>>, <<MaxShareTarget + 255>>}


DShare(st, ts) == [ShareTarget |-> st, Timestamp |-> ts]

\* lengths of the windows in which every share carries the same target
UniformLens == {2, 3, DifficultyAdjustmentWindow, DifficultyAdjustmentWindow + 1}

\* newest.timestamp - oldest.timestamp of a uniform window whose expected time is e
UniformSpans(e) == {0 - 10, 0, 1, e \div 5, e \div 2, e, 2 * e, 4 * e, 5 * e}

DBase == 1000

DTimes == {DBase, DBase + 30, DBase + 150}

\* n shares that all carry the target st; only the newest and the oldest
\* timestamp are fixed by the span
UniformWindow(n, st, span, midTs) ==
    [i \in 1..n |-> DShare(st, IF i = 1 THEN DBase + span
                               ELSE IF i = n THEN DBase ELSE midTs)]

UniformWindows ==
    UNION {{UniformWindow(n, st, span, midTs) :
                span \in UniformSpans(TargetTimeSeconds * (n - 1)),
                st \in DTargets \ {Nil, <<0>>}, midTs \in {DBase, DBase + 7}} :
           n \in UniformLens}

DInit ==
    /\ dwindow = <<>>
    /\ dresult = NextTarget(dwindow)
    /\ PIdle
    /\ CIdle
    /\ NodeIdle

\* NextTarget is called on the window extended by one older share
DPush(st, ts) ==
    /\ Len(dwindow) < MaxWin
    /\ dwindow' = Append(dwindow, DShare(st, ts))
    /\ dresult' = NextTarget(dwindow')
    /\ UNCHANGED <<payVars, chainVars, nodeVars>>

\* NextTarget is called on a window of equal targets
DUniform(w) ==
    /\ dwindow = <<>>
    /\ dwindow' = w
    /\ dresult' = NextTarget(dwindow')
    /\ UNCHANGED <<payVars, chainVars, nodeVars>>

DNext ==
    \/ \E st \in DTargets, ts \in DTimes : DPush(st, ts)
    \/ \E w \in UniformWindows : DUniform(w)

SpecDifficulty == DInit /\ [][DNext]_vars

(***************************************************************************)
(* Difficulty: properties                                                  *)
(***************************************************************************)
DNewestTarget == dwindow[1].ShareTarget

DHasRegime == Len(dwindow) >= 2 /\ DNewestTarget # Nil /\ DNewestTarget[1] > 0

DIsUniform == \A i \in 1..Len(dwindow) : dwindow[i].ShareTarget = DNewestTarget

\* C9 as stated: for every window whose newest share has a target T, the
\* result of NextTarget lies in [T/4, 4T] and is at most MaxShareTarget.
C9_ResultWithinFourfold ==
    (Len(dwindow) >= 1 /\ DNewestTarget # Nil) =>
        /\ dresult >= DNewestTarget[1] \div 4
        /\ dresult <= DNewestTarget[1] * 4
        /\ dresult <= MaxShareTarget

\* C9 amended: a window of fewer than two shares, or whose newest share has
\* no target or a zero target, yields MaxShareTarget; every other window
\* whose newest target T is at most MaxShareTarget yields a result between
\* the compact normalization of T/4 and 4T that is at most MaxShareTarget.
C9_ResultWithinNormalizedFourfold ==
    IF ~DHasRegime
    THEN dresult = MaxShareTarget
    ELSE DNewestTarget[1] <= MaxShareTarget =>
            /\ dresult >= Normalize(DNewestTarget[1] \div 4)
            /\ dresult <= DNewestTarget[1] * 4
            /\ dresult <= MaxShareTarget

\* C9 witness: a retarget of two or more shares whose result the compact
\* normalization has taken below a quarter of the newest target.
C9_Witness ==
    /\ DHasRegime
    /\ DNewestTarget[1] <= MaxShareTarget
    /\ dresult < DNewestTarget[1] \div 4
    /\ dresult >= Normalize(DNewestTarget[1] \div 4)

\* C10: n shares (2 <= n <= 72) at one target T yield T*actual/expected,
\* clamped to [T/4, 4T] and to MaxShareTarget, then normalized; 72 shares
\* spanning twice the expected time yield the normalization of 2T.
C10_UniformRetarget ==
    (DHasRegime /\ DIsUniform /\ Len(dwindow) <= 72) =>
        LET T        == DNewestTarget[1]
            n        == Len(dwindow)
            span     == dwindow[1].Timestamp - dwindow[n].Timestamp
            actual   == Max(span, 1)
            expected == TargetTimeSeconds * (n - 1)
            scaled   == BigMulDiv(T, actual, expected)
            clamped  == Min(Max(Min(scaled, 4 * T), T \div 4), MaxShareTarget)
        IN  /\ dresult = Normalize(clamped)
            /\ (n = 72 /\ actual = 2 * expected /\ 2 * T <= MaxShareTarget)
                   => dresult = Normalize(2 * T)

\* C10 witness: 72 shares at one target spanning twice the expected time.
C10_Witness ==
    /\ DHasRegime /\ DIsUniform
    /\ Len(dwindow) = 72
    /\ dwindow[1].Timestamp - dwindow[72].Timestamp = 2 * TargetTimeSeconds * 71
    /\ 2 * DNewestTarget[1] <= MaxShareTarget
    /\ dresult = Normalize(2 * DNewestTarget[1])

(***************************************************************************)
(* internal/types, internal/sharechain: shares, the store, the validator   *)
(* and the share chain                                                     *)
(*                                                                         *)
(* A share is a record of the fields ValidateShare reads.  Hash is the     *)
(* value of Share.Hash() read as the integer HashMeetsTarget compares.     *)
(* MinerAddress is one of four strings whose byte length AddressLen gives. *)
(* CoinbaseTx is [size, commitment, outputs]: its length in bytes, the     *)
(* hash its share commitment carries (Nil when none can be extracted) and  *)
(* the set of addresses its outputs pay a nonzero amount (Nil when the     *)
(* outputs cannot be parsed).                                              *)
(***************************************************************************)
ZeroHash == 0

MaxTimeFuture == 120

MaxTimePast == 600

maxCoinbaseTxSize == 100 * 1024

maxMinerAddressLen == 128

\* ValidateShare returned nil
NoError == "nil"

\* ValidateShare did not return: TargetToCompact dereferenced a nil *big.Int
NilDereference == "panic: nil pointer dereference"

ValidAddress == "tb1qminer"

OtherAddress == "tb1qother"

InvalidAddress == "not-bech32"

LongAddress == "tb1q-of-129-bytes"

\* len(share.MinerAddress)
AddressLen(address) ==
    CASE address = "" -> 0
      [] address = LongAddress -> maxMinerAddressLen + 1
      [] address = InvalidAddress -> 10
      [] OTHER -> 42

\* types.ValidateAddress(address, network) returns no error
ValidateAddress(address) == address \in {ValidAddress, OtherAddress}

\* types.ExtractShareCommitment(coinbaseTx): <<hash>>, or Nil for an error
ExtractShareCommitment(coinbaseTx) == coinbaseTx.commitment

\* types.ParseCoinbaseOutputs(coinbaseTx): <<outputs>>, or Nil for an error
ParseCoinbaseOutputs(coinbaseTx) == coinbaseTx.outputs

\* types.ValidateMinerInOutputs(outputs, minerAddress, network) returns no error
ValidateMinerInOutputs(outputs, minerAddress) == minerAddress \in outputs

\* util.HashMeetsTarget: hash <= target
HashMeetsTarget(hash, target) == hash <= target

\* Share.MeetsTarget
MeetsTarget(share, target) == HashMeetsTarget(share.Hash, target)

\* ShareStore.Has, ShareStore.Get
Has(hash) == hash \in DOMAIN store

Get(hash) == store[hash]

\* ShareStore.GetAncestors on the store st: up to max shares from startHash
\* back along PrevShareHash, newest first
\* a walk that leaves out the share it starts from
GetAncestors_FromParent(st, startHash, max) ==
    IF max <= 0 \/ startHash \notin DOMAIN st THEN <<>>
    ELSE LET parent == st[startHash].PrevShareHash
         IN  IF parent \notin DOMAIN st THEN <<>> ELSE <<st[parent]>>

RECURSIVE GetAncestors(_, _, _)
GetAncestors(st, startHash, max) ==
    IF max <= 0 \/ startHash \notin DOMAIN st THEN <<>>
    ELSE <<st[startHash]>> \o GetAncestors(st, st[startHash].PrevShareHash, max - 1)

\* the chain's expected_target_for(parent): the retarget over the ancestor
\* window that ends at the parent
ExpectedTargetFor(st, parentHash) ==
    NextTarget(GetAncestors(st, parentHash, DifficultyAdjustmentWindow))

\* Validator.targetFunc, bound by the chain to its expected target
targetFunc(parentHash) == ExpectedTargetFor(store, parentHash)

\* a validator that takes every parent for known
ParentExists_Unchecked(share) == TRUE

\* 3. Parent exists (unless genesis)
ParentExists(share) ==
    share.PrevShareHash = ZeroHash \/ Has(share.PrevShareHash)

\* shareTime.After(now.Add(MaxTimeFuture))
TooFarInFuture(share) == share.Timestamp > now + MaxTimeFuture

\* shareTime.Before(parentTime.Add(-MaxTimePast)), for a parent the store has
TooFarBehindParent(share) ==
    /\ share.PrevShareHash # ZeroHash
    /\ Has(share.PrevShareHash)
    /\ share.Timestamp < Get(share.PrevShareHash).Timestamp - MaxTimePast

\* steps 8 and 9 of ValidateShare: the coinbase commitment and the miner's output
ValidateCoinbase(share) ==
    IF share.CoinbaseTx.size > 0
    THEN LET committedHash == ExtractShareCommitment(share.CoinbaseTx)
             outputs == ParseCoinbaseOutputs(share.CoinbaseTx)
         IN  IF committedHash = Nil THEN "coinbase commitment extraction failed"
             ELSE IF committedHash[1] # share.PrevShareHash
             THEN "coinbase commitment does not match PrevShareHash"
             ELSE IF outputs = Nil THEN "coinbase output parsing failed"
             ELSE IF ~ValidateMinerInOutputs(outputs[1], share.MinerAddress)
             THEN "miner not in coinbase outputs"
             ELSE NoError
    ELSE "missing coinbase transaction"

\* steps 5 to 9 of ValidateShare
ValidateTarget(share) ==
    LET expectedTarget == targetFunc(share.PrevShareHash)
    IN  IF ~MeetsTarget(share, expectedTarget)
        THEN "share does not meet required target"
        ELSE IF share.ShareTarget = Nil THEN NilDereference
        ELSE IF TargetToCompact(share.ShareTarget[1]) # TargetToCompact(expectedTarget)
        THEN "share target mismatch"
        ELSE ValidateCoinbase(share)

\* Validator.ValidateShare: the Reason of the ValidationError, or NoError
ValidateShare(share) ==
    IF share.ShareVersion # 1 THEN "unsupported share version"
    ELSE IF AddressLen(share.MinerAddress) > maxMinerAddressLen
    THEN "miner address too long"
    ELSE IF share.CoinbaseTx.size > maxCoinbaseTxSize THEN "coinbase tx too large"
    ELSE IF share.MinerAddress = "" THEN "missing miner address"
    ELSE IF ~ValidateAddress(share.MinerAddress) THEN "invalid miner address"
    ELSE IF ~ParentExists(share) THEN "parent share not found"
    ELSE IF TooFarInFuture(share) THEN "share timestamp is too far in the future"
    ELSE IF TooFarBehindParent(share) THEN "share timestamp is too far behind parent"
    ELSE ValidateTarget(share)

\* the work of one share: max_target / share_target
ShareWork(share) ==
    IF share.ShareTarget = Nil \/ share.ShareTarget[1] <= 0 THEN 0
    ELSE MaxShareTarget \div share.ShareTarget[1]

\* the sum of the work along the ancestor chain of hash in the store st
RECURSIVE CumulativeWork(_, _)
CumulativeWork(st, hash) ==
    IF hash \notin DOMAIN st THEN 0
    ELSE ShareWork(st[hash]) + CumulativeWork(st, st[hash].PrevShareHash)

\* a chain that also moves its tip to a head of equal work
UpdateTip_OnEqualWork(st, currentTip, hash) ==
    IF currentTip = Nil \/ CumulativeWork(st, hash) >= CumulativeWork(st, currentTip[1])
    THEN <<hash>>
    ELSE currentTip

\* the tip after the share with this hash was persisted in st
UpdateTip(st, currentTip, hash) ==
    IF currentTip = Nil \/ CumulativeWork(st, hash) > CumulativeWork(st, currentTip[1])
    THEN <<hash>>
    ELSE currentTip

(***************************************************************************)
(* Share chain: specification                                              *)
(***************************************************************************)
NumHashes == 3

CBase == 1000

\* hashes that meet every target of the model, and one that meets none
Hashes == {10 + i : i \in 1..NumHashes}

HighHash == MaxShareTarget + 1

\* no target, the two targets the retarget produces here, and a target that
\* shares its compact encoding with the largest one
ChainTargets ==
    {Nil, <<MaxShareTarget>>, <<MaxShareTarget + 255>>,
     <<Normalize(MaxShareTarget \div 4)>>}

ChainTimes == {CBase, CBase + 30}

FutureTime == CBase + 200

PastTime == CBase - 700

CoinbaseKinds ==
    {"empty", "oversize", "nocommit", "wrongcommit", "badoutputs", "unpaid", "good"}

MakeCoinbase(kind, prev, address) ==
    CASE kind = "empty" -> [size |-> 0, commitment |-> Nil, outputs |-> Nil]
      [] kind = "oversize" ->
            [size |-> maxCoinbaseTxSize + 1, commitment |-> <<prev>>,
             outputs |-> <<{address}>>]
      [] kind = "nocommit" ->
            [size |-> 200, commitment |-> Nil, outputs |-> <<{address}>>]
      [] kind = "wrongcommit" ->
            [size |-> 200, commitment |-> <<prev + 1>>, outputs |-> <<{address}>>]
      [] kind = "badoutputs" ->
            [size |-> 200, commitment |-> <<prev>>, outputs |-> Nil]
      [] kind = "unpaid" ->
            [size |-> 200, commitment |-> <<prev>>, outputs |-> <<{OtherAddress} \ {address}>>]
      [] OTHER ->
            [size |-> 200, commitment |-> <<prev>>, outputs |-> <<{address}>>]

MakeShare(hash, prev, ts, st, version, address, kind) ==
    [Hash |-> hash, ShareVersion |-> version, PrevShareHash |-> prev,
     ShareTarget |-> st, MinerAddress |-> address,
     CoinbaseTx |-> MakeCoinbase(kind, prev, address), Timestamp |-> ts]

\* the shares peers and miners hand to the chain
ChainShares ==
    {MakeShare(h, prev, ts, st, 1, ValidAddress, "good") :
        h \in Hashes \cup {HighHash}, prev \in {ZeroHash} \cup Hashes,
        ts \in ChainTimes, st \in ChainTargets}

\* the shares handed to the validator alone: every combination of version,
\* address and coinbase on a few chain positions, and every chain position
\* with a few of these
AnyShares ==
    {MakeShare(h, prev, CBase, <<MaxShareTarget>>, version, address, kind) :
        h \in {10 + NumHashes, HighHash}, prev \in {ZeroHash, 11},
        version \in {1, 2},
        address \in {"", ValidAddress, InvalidAddress, LongAddress},
        kind \in CoinbaseKinds}
    \cup
    {MakeShare(h, prev, ts, st, 1, address, kind) :
        h \in {10 + NumHashes, HighHash}, prev \in {ZeroHash, 11},
        ts \in {PastTime, CBase, FutureTime}, st \in ChainTargets,
        address \in {ValidAddress, InvalidAddress}, kind \in {"good", "empty"}}

Init ==
    /\ store = <<>>
    /\ tip = Nil
    /\ now = CBase
    /\ lastShare = Nil
    /\ lastResult = ""
    /\ PIdle
    /\ DIdle
    /\ NodeIdle

\* the chain's append: validate, persist, move the tip
AddShare(share) ==
    /\ lastShare = Nil
    /\ share.Hash # share.PrevShareHash
    /\ lastShare' = <<share>>
    /\ lastResult' = ValidateShare(share)
    /\ IF lastResult' = NoError /\ ~Has(share.Hash)
       THEN /\ store' = store @@ (share.Hash :> share)
            /\ tip' = UpdateTip(store', tip, share.Hash)
       ELSE UNCHANGED <<store, tip>>
    /\ UNCHANGED <<now, payVars, diffVars, nodeVars>>

\* ValidateShare is called on a share that is not appended
Validate(share) ==
    /\ lastShare = Nil
    /\ share.Hash # share.PrevShareHash
    /\ lastShare' = <<share>>
    /\ lastResult' = ValidateShare(share)
    /\ UNCHANGED <<store, tip, now, payVars, diffVars, nodeVars>>

\* the call returns to its caller
Return ==
    /\ lastShare # Nil
    /\ lastShare' = Nil
    /\ lastResult' = ""
    /\ UNCHANGED <<store, tip, now, payVars, diffVars, nodeVars>>

\* the clock advances
Tick ==
    /\ lastShare = Nil
    /\ now < CBase + 100
    /\ now' = now + 100
    /\ UNCHANGED <<store, tip, lastShare, lastResult, payVars, diffVars, nodeVars>>

Next ==
    \/ \E share \in ChainShares : AddShare(share)
    \/ \E share \in AnyShares : Validate(share)
    \/ Return
    \/ Tick

Spec == Init /\ [][Next]_vars

(***************************************************************************)
(* Share chain: properties                                                 *)
(***************************************************************************)
\* the result is a ValidationError
IsValidationError(result) == result \notin {"", NoError, NilDereference}

\* the expected target of the share of the current call
LastExpected == ExpectedTargetFor(store, lastShare[1].PrevShareHash)

\* C1: a share that ValidateShare accepts, and every share the chain has
\* stored, declares exactly the expected target computed from its parent: no
\* share declaring another target value is accepted.
C1_DeclaredTargetIsExpected ==
    /\ \A h \in DOMAIN store :
          store[h].ShareTarget = <<ExpectedTargetFor(store, store[h].PrevShareHash)>>
    /\ (lastShare # Nil /\ lastResult = NoError)
       => lastShare[1].ShareTarget = <<LastExpected>>

\* C2: every stored share with a non-zero PrevShareHash has its parent in the
\* store, and a call with a share whose non-zero parent is not stored ends in
\* a ValidationError.
C2_ParentStored ==
    /\ \A h \in DOMAIN store :
          store[h].PrevShareHash # ZeroHash => store[h].PrevShareHash \in DOMAIN store
    /\ (/\ lastShare # Nil
        /\ lastShare[1].PrevShareHash # ZeroHash
        /\ lastShare[1].PrevShareHash \notin DOMAIN store)
       => IsValidationError(lastResult)

\* a non-genesis share is stored under a stored genesis share, and the call
\* that has just ended refused an otherwise valid share for its unknown parent
C2_Witness ==
    /\ \E h \in DOMAIN store : store[h].PrevShareHash \in DOMAIN store
    /\ lastShare # Nil
    /\ lastShare[1].PrevShareHash \notin DOMAIN store \cup {ZeroHash}
    /\ lastShare[1].CoinbaseTx.commitment = <<lastShare[1].PrevShareHash>>
    /\ lastResult = "parent share not found"

\* the stored shares no stored share builds on
Heads == {h \in DOMAIN store : \A c \in DOMAIN store : store[c].PrevShareHash # h}

TipIsHeaviest ==
    /\ (tip = Nil <=> DOMAIN store = {})
    /\ (tip # Nil =>
          /\ tip[1] \in DOMAIN store
          /\ \A h \in Heads : CumulativeWork(store, tip[1]) >= CumulativeWork(store, h))

TipMovesUp ==
    tip' # tip =>
        /\ tip' # Nil
        /\ tip'[1] \in DOMAIN store' \ DOMAIN store
        /\ (tip # Nil => CumulativeWork(store', tip'[1]) > CumulativeWork(store, tip[1]))

\* C3: the tip is absent exactly while the store is empty, otherwise it is a
\* stored share whose cumulative work is at least that of every chain head;
\* and the tip only moves to a newly stored share whose cumulative work is
\* strictly greater than that of the tip it replaces.
C3_TipHeaviest == [](TipIsHeaviest) /\ [][TipMovesUp]_vars

\* the chain has forked: the share just appended built on a stored share
\* and became the tip, with strictly more work than another chain head,
\* whose work equals that of the new tip's parent
C3_Witness ==
    /\ lastShare # Nil /\ lastResult = NoError
    /\ tip = <<lastShare[1].Hash>>
    /\ lastShare[1].PrevShareHash \in DOMAIN store
    /\ \E h \in Heads :
          /\ h # tip[1]
          /\ CumulativeWork(store, h) > 0
          /\ CumulativeWork(store, h) < CumulativeWork(store, tip[1])
          /\ CumulativeWork(store, h) = CumulativeWork(store, lastShare[1].PrevShareHash)

\* the checks of ValidateShare, in their order, that the share violates
ViolatedChecks(share) ==
    LET parentKnown == share.PrevShareHash \in DOMAIN store
        expected == ExpectedTargetFor(store, share.PrevShareHash)
        cb == share.CoinbaseTx
    IN  {k \in 1..9 :
            \/ k = 1 /\ share.ShareVersion # 1
            \/ k = 2 /\ (AddressLen(share.MinerAddress) > 128 \/ cb.size > 100 * 1024)
            \/ k = 3 /\ (share.MinerAddress = "" \/ ~ValidateAddress(share.MinerAddress))
            \/ k = 4 /\ share.PrevShareHash # ZeroHash /\ ~parentKnown
            \/ k = 5 /\ (\/ share.Timestamp > now + 120
                         \/ parentKnown /\ share.Timestamp
                                < store[share.PrevShareHash].Timestamp - 600)
            \/ k = 6 /\ share.Hash > expected
            \/ k = 7 /\ share.ShareTarget # <<expected>>
            \/ k = 8 /\ cb.commitment # <<share.PrevShareHash>>
            \/ k = 9 /\ (cb.outputs = Nil \/ share.MinerAddress \notin cb.outputs[1])}

\* the check a ValidationError reports
CheckOf(reason) ==
    CASE reason = "unsupported share version" -> 1
      [] reason \in {"miner address too long", "coinbase tx too large"} -> 2
      [] reason \in {"missing miner address", "invalid miner address"} -> 3
      [] reason = "parent share not found" -> 4
      [] reason \in {"share timestamp is too far in the future",
                     "share timestamp is too far behind parent"} -> 5
      [] reason = "share does not meet required target" -> 6
      [] reason = "share target mismatch" -> 7
      [] reason \in {"coinbase commitment extraction failed",
                     "coinbase commitment does not match PrevShareHash",
                     "missing coinbase transaction"} -> 8
      [] reason \in {"coinbase output parsing failed",
                     "miner not in coinbase outputs"} -> 9
      [] OTHER -> 0

\* C4: ValidateShare returns nil exactly for a share that violates none of
\* its nine checks, and otherwise the ValidationError of the earliest check,
\* in the fixed order, that the share violates.
C4_EarliestViolatedCheck ==
    lastShare # Nil =>
        LET violated == ViolatedChecks(lastShare[1])
        IN  IF violated = {} THEN lastResult = NoError
            ELSE /\ IsValidationError(lastResult)
                 /\ CheckOf(lastResult) = CHOOSE k \in violated : \A j \in violated : k <= j

(***************************************************************************)
(* internal/work: merkle branches and merkle roots                         *)
(*                                                                         *)
(* A byte is a record [sha, at]: the byte number at of the double SHA-256  *)
(* of the byte string sha, or, with sha = <<>>, the plain byte of value    *)
(* at.  So DoubleSHA256 has no collisions, and a hash has HashSize bytes.  *)
(* A hex string is a sequence of digits [byte, half]: the high (1) or low  *)
(* (2) hex digit of a byte.                                                *)
(***************************************************************************)
HashSize == 2

RawByte(v) == [sha |-> <<>>, at |-> v]

\* util.DoubleSHA256
DoubleSHA256(data) == [i \in 1..HashSize |-> [sha |-> data, at |-> i]]

\* hex.EncodeToString: two digits for every byte
HexEncode(bytes) ==
    [k \in 1..(2 * Len(bytes)) |-> [byte |-> bytes[(k + 1) \div 2], half |-> 2 - (k % 2)]]

\* hex.DecodeString returns no error: an even number of digits, every pair
\* the high and the low digit of one byte
HexValid(str) ==
    /\ Len(str) % 2 = 0
    /\ \A k \in 1..(Len(str) \div 2) :
          /\ str[2 * k - 1].half = 1
          /\ str[2 * k].half = 2
          /\ str[2 * k - 1].byte = str[2 * k].byte

\* hex.DecodeString on a valid string
HexDecode(str) == [k \in 1..(Len(str) \div 2) |-> str[2 * k].byte]

\* a level that hashes an odd last element alone
PairUp_NoDuplicate(remaining) ==
    [k \in 1..((Len(remaining) + 1) \div 2) |->
        DoubleSHA256(IF 2 * k <= Len(remaining)
                     THEN remaining[2 * k - 1] \o remaining[2 * k]
                     ELSE remaining[2 * k - 1])]

\* the inner loop of ComputeMerkleBranches: pair up the remaining hashes,
\* duplicating the last one of an odd count
PairUp(remaining) ==
    [k \in 1..((Len(remaining) + 1) \div 2) |->
        DoubleSHA256(remaining[2 * k - 1] \o
                     (IF 2 * k <= Len(remaining) THEN remaining[2 * k]
                      ELSE remaining[2 * k - 1]))]

\* the outer loop of ComputeMerkleBranches
RECURSIVE BranchLoop(_)
BranchLoop(hashes) ==
    IF Len(hashes) = 0 THEN <<>>
    ELSE IF Len(hashes) = 1 THEN <<HexEncode(hashes[1])>>
    ELSE <<HexEncode(hashes[1])>> \o BranchLoop(PairUp(Tail(hashes)))

\* ComputeMerkleBranches(txHashes): the branches, and whether it failed
ComputeMerkleBranches(txHashes) ==
    IF Len(txHashes) = 0 THEN [branches |-> <<>>, err |-> FALSE]
    ELSE IF \E i \in 1..Len(txHashes) : ~HexValid(txHashes[i])
    THEN [branches |-> <<>>, err |-> TRUE]
    ELSE [branches |-> BranchLoop([i \in 1..Len(txHashes) |-> HexDecode(txHashes[i])]),
          err |-> FALSE]

\* ComputeMerkleRoot(coinbaseHash, branches): the root, and whether it failed
RECURSIVE ComputeMerkleRoot(_, _)
ComputeMerkleRoot(coinbaseHash, branches) ==
    IF Len(branches) = 0 THEN [root |-> coinbaseHash, err |-> FALSE]
    ELSE IF ~HexValid(branches[1]) THEN [root |-> <<>>, err |-> TRUE]
    ELSE ComputeMerkleRoot(DoubleSHA256(coinbaseHash \o HexDecode(branches[1])),
                           Tail(branches))

\* one level of ComputeFullMerkleRoot
FullLevel(hashes) ==
    LET padded == IF Len(hashes) % 2 # 0
                  THEN Append(hashes, hashes[Len(hashes)]) ELSE hashes
    IN  [k \in 1..(Len(padded) \div 2) |->
            DoubleSHA256(padded[2 * k - 1] \o padded[2 * k])]

\* ComputeFullMerkleRoot(txids): Nil for an empty list
RECURSIVE FullLoop(_)
FullLoop(hashes) == IF Len(hashes) > 1 THEN FullLoop(FullLevel(hashes)) ELSE hashes[1]

ComputeFullMerkleRoot(txids) == IF Len(txids) = 0 THEN Nil ELSE <<FullLoop(txids)>>

(***************************************************************************)
(* Merkle: specification                                                   *)
(***************************************************************************)
MaxTxs == 5

\* makeTxHash(seed) of the consistency test
MakeTxHash(seed) == DoubleSHA256([i \in 1..4 |-> RawByte(seed)])

TxSeeds == 1..3

CoinbaseHashes == {DoubleSHA256(<<RawByte(99)>>), MakeTxHash(1)}

MerkleOthers == <<payVars, diffVars, chainVars, syncVars, genVars, boltVars, stratumVars, compactVars, listenerVars, roundVars, gossipVars, submitVars, shareVars, emitVars, backoffVars, refreshVars, outageVars, notifyVars, wireVars, cancelVars, snapVars, normVars>>

\* both roots for the coinbase hash cb and the txids txs
MCompute(cb, txs) ==
    LET br == ComputeMerkleBranches([i \in 1..Len(txs) |-> HexEncode(txs[i])])
    IN  /\ mcoinbase' = cb
        /\ mtxids' = txs
        /\ mbranches' = br
        /\ mroot' = ComputeMerkleRoot(cb, br.branches)
        /\ mfull' = ComputeFullMerkleRoot(<<cb>> \o txs)

MInit ==
    /\ PIdle
    /\ DIdle
    /\ CIdle
    /\ NodeIdle

\* a template without transactions
MStart(cb) ==
    /\ mcoinbase = <<>>
    /\ MCompute(cb, <<>>)
    /\ UNCHANGED MerkleOthers

\* the template has one more transaction
MAddTx(seed) ==
    /\ mcoinbase # <<>>
    /\ Len(mtxids) < MaxTxs
    /\ MCompute(mcoinbase, Append(mtxids, MakeTxHash(seed)))
    /\ UNCHANGED MerkleOthers

\* the template has lost its first transaction
MDropTx ==
    /\ Len(mtxids) > 0
    /\ MCompute(mcoinbase, Tail(mtxids))
    /\ UNCHANGED MerkleOthers

MNext ==
    \/ \E cb \in CoinbaseHashes : MStart(cb)
    \/ \E seed \in TxSeeds : MAddTx(seed)
    \/ MDropTx

SpecMerkle == MInit /\ [][MNext]_vars

\* C11: the root folded from the coinbase hash through the merkle branches
\* of the txids equals the full bottom-up root over the coinbase hash
\* followed by the txids, neither call fails, and without txids there are no
\* branches and the root is the coinbase hash.
C11_BranchRootIsFullRoot ==
    mcoinbase # <<>> =>
        /\ ~mbranches.err /\ ~mroot.err
        /\ mfull = <<mroot.root>>
        /\ mtxids = <<>> => (mbranches.branches = <<>> /\ mroot.root = mcoinbase)

\* an odd number of txids on more than one level, with a repeated txid
C11_Witness ==
    /\ Len(mtxids) = 5
    /\ mtxids[4] = mtxids[5]
    /\ Len(mbranches.branches) = 3
    /\ mfull = <<mroot.root>>
    /\ mroot.root # mcoinbase

(***************************************************************************)
(* internal/p2p: the sync protocol, and the chain's shares_after behind it *)
(*                                                                         *)
(* A request is [Locators, MaxCount], a response [Shares, More].  The      *)
(* server's chain is the store and the tip of the share chain.             *)
(***************************************************************************)
maxSyncBatchSize == 100

maxLocatorCount == 64

\* a server that passes every locator on
ClampRequest_NoLocatorCap(req) ==
    [Locators |-> req.Locators,
     MaxCount |-> IF req.MaxCount > maxSyncBatchSize THEN maxSyncBatchSize
                  ELSE req.MaxCount]

\* Syncer.handleStream: the request as it is handed to the handler
ClampRequest(req) ==
    [Locators |-> IF Len(req.Locators) > maxLocatorCount
                  THEN SubSeq(req.Locators, 1, maxLocatorCount)
                  ELSE req.Locators,
     MaxCount |-> IF req.MaxCount > maxSyncBatchSize THEN maxSyncBatchSize
                  ELSE req.MaxCount]

\* the main chain of the store st with tip tp, oldest first
MainChain(st, tp) ==
    IF tp = Nil THEN <<>>
    ELSE LET back == GetAncestors(st, tp[1], Cardinality(DOMAIN st))
         IN  [i \in 1..Len(back) |-> back[Len(back) + 1 - i]]

\* the position on the main chain of the hash h, 0 when it is not on it
MainIndex(main, h) ==
    IF \E i \in 1..Len(main) : main[i].Hash = h
    THEN CHOOSE i \in 1..Len(main) : main[i].Hash = h
    ELSE 0

\* a fork point taken from the last locator that is on the main chain
ForkIndex_LastLocator(main, locators) ==
    LET hits == {k \in 1..Len(locators) : MainIndex(main, locators[k]) > 0}
    IN  IF hits = {} THEN 0
        ELSE MainIndex(main, locators[CHOOSE k \in hits : \A j \in hits : j <= k])

\* the fork point: the main-chain position of the first locator that is on
\* the main chain, 0 when none is
ForkIndex(main, locators) ==
    LET hits == {k \in 1..Len(locators) : MainIndex(main, locators[k]) > 0}
    IN  IF hits = {} THEN 0
        ELSE MainIndex(main, locators[CHOOSE k \in hits : \A j \in hits : k <= j])

\* the chain's shares_after(locators, max_count)
SharesAfter(st, tp, locators, maxCount) ==
    LET main == MainChain(st, tp)
        startIdx == ForkIndex(main, locators)
        remaining == Len(main) - startIdx
        n == IF maxCount < remaining THEN Max(maxCount, 0) ELSE remaining
    IN  [Shares |-> SubSeq(main, startIdx + 1, startIdx + n),
         More |-> n < remaining]

(***************************************************************************)
(* Sync: specification                                                     *)
(***************************************************************************)
NumSyncHashes == 4

SyncHashes == {10 + i : i \in 1..NumSyncHashes}

UnknownHash == 99

\* shares the server's chain accepts: one timestamp, so a share at depth 3
\* or more has a quarter of its parent's target
SyncShares ==
    {MakeShare(h, prev, CBase, <<st>>, 1, ValidAddress, "good") :
        h \in SyncHashes, prev \in {ZeroHash} \cup SyncHashes,
        st \in {MaxShareTarget, Normalize(MaxShareTarget \div 4),
                Normalize(Normalize(MaxShareTarget \div 4) \div 4)}}

\* no locator, one or two locators, and lists longer than the server keeps,
\* whose only locator on the chain is the last one
SyncLocators ==
    {<<>>}
    \cup {<<a>> : a \in SyncHashes \cup {UnknownHash}}
    \cup {<<a, b>> : a, b \in SyncHashes \cup {UnknownHash}}
    \cup {[k \in 1..n |-> IF k = n THEN 11 ELSE UnknownHash] :
             n \in {maxLocatorCount, maxLocatorCount + 1, maxLocatorCount + 2}}

SyncMaxCounts ==
    {0, 1, 2, maxSyncBatchSize, maxSyncBatchSize + 1, 5 * maxSyncBatchSize}

SyncOthers == <<payVars, diffVars, merkleVars, genVars, boltVars, stratumVars, compactVars, listenerVars, roundVars, gossipVars, submitVars, shareVars, emitVars, backoffVars, refreshVars, outageVars, notifyVars, wireVars, cancelVars, snapVars, normVars>>

SInit ==
    /\ store = <<>>
    /\ tip = Nil
    /\ now = CBase
    /\ lastShare = Nil
    /\ lastResult = ""
    /\ PIdle
    /\ DIdle
    /\ NodeIdle

\* the server's chain appends a share while no sync stream is open
SAppend(share) ==
    /\ syncReq = Nil
    /\ AddShare(share)

SReturn ==
    /\ syncReq = Nil
    /\ Return

\* Syncer.handleStream for a request that was read and decoded
HandleStream(req) ==
    /\ syncReq = Nil
    /\ lastShare = Nil
    /\ syncReq' = <<req>>
    /\ syncSeen' = <<ClampRequest(req)>>
    /\ syncResp' = <<SharesAfter(store, tip, syncSeen'[1].Locators, syncSeen'[1].MaxCount)>>
    /\ UNCHANGED <<chainVars, SyncOthers>>

\* the stream is closed
CloseStream ==
    /\ syncReq # Nil
    /\ syncReq' = Nil
    /\ syncSeen' = Nil
    /\ syncResp' = Nil
    /\ UNCHANGED <<chainVars, SyncOthers>>

SNext ==
    \/ \E share \in SyncShares : SAppend(share)
    \/ SReturn
    \/ \E locators \in SyncLocators, maxCount \in SyncMaxCounts :
          HandleStream([Locators |-> locators, MaxCount |-> maxCount])
    \/ CloseStream

SpecSync == SInit /\ [][SNext]_vars

(***************************************************************************)
(* Sync: properties                                                        *)
(***************************************************************************)
\* the hashes of the main chain of the server
OnMainChain(h) ==
    \E i \in 1..Len(MainChain(store, tip)) : MainChain(store, tip)[i].Hash = h

\* the hash the response starts after: the first locator the handler saw
\* that is on the main chain, the zero hash (the parent of genesis) if none
SyncAnchor ==
    LET locators == syncSeen[1].Locators
        hits == {k \in 1..Len(locators) : OnMainChain(locators[k])}
    IN  IF hits = {} THEN ZeroHash
        ELSE locators[CHOOSE k \in hits : \A j \in hits : k <= j]

\* the hash the response ends with
SyncEnd ==
    IF syncResp[1].Shares = <<>> THEN SyncAnchor
    ELSE syncResp[1].Shares[Len(syncResp[1].Shares)].Hash

\* C12: shares_after returns main-chain shares linked parent to child, the
\* first one the child of the first locator on the main chain (of genesis'
\* parent when no locator is on it), at most max_count of them and no fewer
\* unless the chain ends; more is true iff a main-chain share follows the
\* last one returned
C12_SharesAfterLocator ==
    syncResp # Nil =>
        LET shares == syncResp[1].Shares
            maxCount == syncSeen[1].MaxCount
            follows == \E i \in 1..Len(MainChain(store, tip)) :
                          MainChain(store, tip)[i].PrevShareHash = SyncEnd
        IN  /\ Len(shares) <= maxCount
            /\ \A i \in 1..Len(shares) :
                  /\ OnMainChain(shares[i].Hash)
                  /\ shares[i] = store[shares[i].Hash]
                  /\ shares[i].PrevShareHash =
                        (IF i = 1 THEN SyncAnchor ELSE shares[i - 1].Hash)
            /\ syncResp[1].More = follows
            /\ (Len(shares) < maxCount => ~follows)

\* main chain A,B,C,D and locator [B]: the response is [C,D], more = false
C12_Witness ==
    /\ syncResp # Nil
    /\ Len(MainChain(store, tip)) = 4
    /\ syncSeen[1].Locators = <<MainChain(store, tip)[2].Hash>>
    /\ syncResp[1].Shares = <<MainChain(store, tip)[3], MainChain(store, tip)[4]>>
    /\ syncResp[1].More = FALSE

\* C13: the handler sees max_count = min(requested, 100) and the first 64
\* locators of the request, in order
C13_HandlerSeesClampedRequest ==
    syncReq # Nil =>
        /\ syncSeen[1].MaxCount = Min(syncReq[1].MaxCount, 100)
        /\ Len(syncSeen[1].Locators) = Min(Len(syncReq[1].Locators), 64)
        /\ \A k \in 1..Len(syncSeen[1].Locators) :
              syncSeen[1].Locators[k] = syncReq[1].Locators[k]

C13_Witness ==
    /\ syncReq # Nil
    /\ syncReq[1].MaxCount = 500
    /\ Len(syncReq[1].Locators) = 65
    /\ OnMainChain(syncReq[1].Locators[65])
    /\ syncSeen[1].MaxCount = 100
    /\ Len(syncSeen[1].Locators) = 64
    /\ Len(syncResp[1].Shares) > 1

(***************************************************************************)
(* internal/work: the generator's job cache and its template poller        *)
(*                                                                         *)
(* A template is [PreviousBlockHash]; a job is [ID, Seq, CleanJobs,        *)
(* Template].  Times are in seconds.                                       *)
(***************************************************************************)
PollInterval == 5

JobRefreshInterval == 30

maxStoredJobs == 20

\* the capacity of Generator.jobCh, scaled from 8
jobChSize == 1

\* fmt.Sprintf("%x", seq): the hexadecimal digits of seq, most significant
\* first
RECURSIVE JobID(_)
JobID(seq) ==
    IF seq < 16 THEN <<seq>> ELSE Append(JobID(seq \div 16), seq % 16)

\* a counter that is read and not advanced
NextSeq_NoAdd(counter) == counter

\* jobCounter.Add(1); the counter has 64 bits and stays far from its end
NextSeq(counter) == counter + 1

\* BuildJobFromTemplate, when it succeeds, with Seq and Template filled in
BuildJob(seq, tmpl) ==
    [ID |-> JobID(seq), Seq |-> seq, CleanJobs |-> FALSE, Template |-> tmpl]

\* Generator.GetJob: Nil when the id is not in the cache
GetJob(cache, id) ==
    IF id \in DOMAIN cache THEN <<cache[id]>> ELSE Nil

\* a cache that evicts its newest job
OldestID_LargestSeq(cache) ==
    CHOOSE id \in DOMAIN cache :
        \A other \in DOMAIN cache : cache[other].Seq <= cache[id].Seq

\* the inner loop of storeJob: the id of the job with the smallest Seq
OldestID(cache) ==
    CHOOSE id \in DOMAIN cache :
        \A other \in DOMAIN cache : cache[id].Seq <= cache[other].Seq

\* the outer loop of storeJob
RECURSIVE Evict(_)
Evict(cache) ==
    IF Cardinality(DOMAIN cache) > maxStoredJobs
    THEN Evict([id \in DOMAIN cache \ {OldestID(cache)} |-> cache[id]])
    ELSE cache

\* Generator.storeJob
StoreJob(cache, job) ==
    Evict([id \in DOMAIN cache \cup {job.ID} |->
              IF id = job.ID THEN job ELSE cache[id]])

(***************************************************************************)
(* Job cache: specification.  GenerateJob is called from several           *)
(* goroutines; a call takes its sequence number in one atomic step and     *)
(* stores its job, under jobsMu, in a later one.                           *)
(***************************************************************************)
NumCallers == 2

MaxSeq == 23

MaxBuildFailures == 1

Callers == 1..NumCallers

JobsOthers == <<payVars, diffVars, chainVars, merkleVars, syncVars, boltVars, stratumVars, compactVars, listenerVars, roundVars, gossipVars, submitVars, shareVars, emitVars, backoffVars, refreshVars, outageVars, notifyVars, wireVars, cancelVars, snapVars, normVars>>

JInit == PIdle /\ DIdle /\ CIdle /\ NodeIdle

\* fetchTemplate stores the first template
JFirstTemplate ==
    /\ currentTemplate = Nil
    /\ currentTemplate' = <<[PreviousBlockHash |-> bestBlock]>>
    /\ UNCHANGED <<bestBlock, jobCounter, jobs, genCalls, stored, jobCh,
                   lastJobTime, cleanDelivered, JobsOthers>>

\* GenerateJob up to jobCounter.Add(1)
GenTakeSeq(c) ==
    /\ currentTemplate # Nil
    /\ jobCounter < MaxSeq
    /\ \A call \in genCalls : call.caller # c
    /\ jobCounter' = NextSeq(jobCounter)
    /\ genCalls' = genCalls \cup
          {[caller |-> c, seq |-> jobCounter', tmpl |-> currentTemplate[1]]}
    /\ UNCHANGED <<bestBlock, currentTemplate, jobs, stored, jobCh,
                   lastJobTime, cleanDelivered, JobsOthers>>

\* GenerateJob returns the error of BuildJobFromTemplate
GenBuildFails(c) ==
    /\ jobCounter - Cardinality(stored) - Cardinality(genCalls) < MaxBuildFailures
    /\ \E call \in genCalls :
          /\ call.caller = c
          /\ genCalls' = genCalls \ {call}
    /\ UNCHANGED <<bestBlock, currentTemplate, jobCounter, jobs, stored, jobCh,
                   lastJobTime, cleanDelivered, JobsOthers>>

\* GenerateJob builds the job, stores it and returns it
GenStore(c) ==
    /\ \E call \in genCalls :
          /\ call.caller = c
          /\ genCalls' = genCalls \ {call}
          /\ jobs' = StoreJob(jobs, BuildJob(call.seq, call.tmpl))
          /\ stored' = stored \cup {call.seq}
    /\ UNCHANGED <<bestBlock, currentTemplate, jobCounter, jobCh,
                   lastJobTime, cleanDelivered, JobsOthers>>

JNext ==
    \/ JFirstTemplate
    \/ \E c \in Callers : GenTakeSeq(c)
    \/ \E c \in Callers : GenBuildFails(c)
    \/ \E c \in Callers : GenStore(c)

SpecJobs == JInit /\ [][JNext]_vars

(***************************************************************************)
(* Job cache: properties                                                   *)
(***************************************************************************)
\* the sequence numbers of the maxStoredJobs most recently numbered stored
\* jobs
NewestStored ==
    {s \in stored : Cardinality({t \in stored : t > s}) < maxStoredJobs}

\* C14: the cache holds at most 20 jobs; GetJob finds the stored jobs with
\* the 20 largest sequence numbers, each under its own id, and no other
C14_CacheHoldsNewestJobs ==
    /\ Cardinality(DOMAIN jobs) <= 20
    /\ \A s \in NewestStored :
          /\ GetJob(jobs, JobID(s)) # Nil
          /\ GetJob(jobs, JobID(s))[1].Seq = s
    /\ \A s \in 0..MaxSeq + 1 :
          s \notin NewestStored => GetJob(jobs, JobID(s)) = Nil
    /\ \A id \in DOMAIN jobs : id = JobID(jobs[id].Seq)

\* 22 jobs were stored and one number was lost to a failed build: the two
\* oldest jobs are gone, the 20 newest are found
C14_Witness ==
    /\ Cardinality(stored) = 22
    /\ Cardinality(DOMAIN jobs) = 20
    /\ 1 \in stored
    /\ 2 \notin stored
    /\ genCalls = {}
    /\ GetJob(jobs, JobID(1)) = Nil
    /\ GetJob(jobs, JobID(3)) = Nil
    /\ GetJob(jobs, JobID(4)) # Nil
    /\ GetJob(jobs, JobID(23)) # Nil

(***************************************************************************)
(* Template poller: specification.  pollLoop calls fetchTemplate every     *)
(* PollInterval; the orchestrator receives from jobCh.                     *)
(***************************************************************************)
MaxBlocks == 2

\* the poller is followed until it has numbered this many jobs
MaxPolledJobs == 6

Blocks == 1..MaxBlocks

PollOthers == <<payVars, diffVars, chainVars, merkleVars, syncVars, boltVars, stratumVars, compactVars, listenerVars, roundVars, gossipVars, submitVars, shareVars, emitVars, backoffVars, refreshVars, outageVars, notifyVars, wireVars, cancelVars, snapVars, normVars>>

PollInit == PIdle /\ DIdle /\ CIdle /\ NodeIdle

\* time.Since(g.lastJobTime) at a poll, as far as the refresh looks at it
SinceLastJob ==
    IF lastJobTime = Nil THEN JobRefreshInterval
    ELSE Min(lastJobTime[1] + PollInterval, JobRefreshInterval)

\* a poll that does not send a job leaves lastJobTime where it is
LastJobTimeAges ==
    lastJobTime' = IF lastJobTime = Nil THEN Nil ELSE <<SinceLastJob>>

\* bitcoind learns of a new block
NewBlock ==
    /\ bestBlock < MaxBlocks
    /\ bestBlock' = bestBlock + 1
    /\ UNCHANGED <<currentTemplate, jobCounter, jobs, genCalls, stored, jobCh,
                   lastJobTime, cleanDelivered, PollOthers>>

\* fetchTemplate when GetBlockTemplate returns an error
FetchFails ==
    /\ lastJobTime # Nil
    /\ lastJobTime[1] < JobRefreshInterval
    /\ LastJobTimeAges
    /\ UNCHANGED <<bestBlock, currentTemplate, jobCounter, jobs, genCalls,
                   stored, jobCh, cleanDelivered, PollOthers>>

\* fetchTemplate when GetBlockTemplate returns a template; buildOk tells
\* whether BuildJobFromTemplate succeeds (it may fail at the poll of a new
\* block; the builds of refresh jobs succeed)
FetchTemplate(buildOk) ==
    LET tmpl == [PreviousBlockHash |-> bestBlock]
        newBlock == IF currentTemplate = Nil THEN TRUE
                    ELSE tmpl.PreviousBlockHash # currentTemplate[1].PreviousBlockHash
        needsRefresh == ~newBlock /\ SinceLastJob >= JobRefreshInterval
        seq == NextSeq(jobCounter)
        job == [BuildJob(seq, tmpl) EXCEPT !.CleanJobs = newBlock]
    IN  /\ genCalls = {}
        /\ (newBlock \/ needsRefresh) => jobCounter < MaxPolledJobs
        /\ ~buildOk => newBlock
        /\ currentTemplate' = <<tmpl>>
        /\ IF newBlock \/ needsRefresh
           THEN /\ jobCounter' = seq
                /\ IF buildOk
                   THEN /\ jobs' = StoreJob(jobs, job)
                        /\ stored' = stored \cup {seq}
                        /\ IF Len(jobCh) < jobChSize
                           THEN /\ jobCh' = Append(jobCh, job)
                                /\ lastJobTime' = <<0>>
                                /\ cleanDelivered' =
                                      IF newBlock
                                      THEN cleanDelivered \cup {tmpl.PreviousBlockHash}
                                      ELSE cleanDelivered
                           ELSE /\ LastJobTimeAges
                                /\ UNCHANGED <<jobCh, cleanDelivered>>
                   ELSE /\ LastJobTimeAges
                        /\ UNCHANGED <<jobs, stored, jobCh, cleanDelivered>>
           ELSE /\ LastJobTimeAges
                /\ UNCHANGED <<jobCounter, jobs, stored, jobCh, cleanDelivered>>
        /\ UNCHANGED <<bestBlock, genCalls, PollOthers>>

\* the orchestrator receives the oldest job of jobCh
ReceiveJob ==
    /\ jobCh # <<>>
    /\ jobCh' = Tail(jobCh)
    /\ UNCHANGED <<bestBlock, currentTemplate, jobCounter, jobs, genCalls,
                   stored, lastJobTime, cleanDelivered, PollOthers>>

PollNext ==
    \/ NewBlock
    \/ FetchFails
    \/ \E buildOk \in BOOLEAN : FetchTemplate(buildOk)
    \/ ReceiveJob

\* the ticker keeps firing, bitcoind answers and jobs can be built again
\* and again, and the orchestrator keeps receiving
SpecPoll ==
    /\ PollInit
    /\ [][PollNext]_vars
    /\ WF_vars(FetchTemplate(TRUE))
    /\ WF_vars(ReceiveJob)

DuplicateShare == "duplicate share"

\* big.Int.Bytes: the big-endian bytes of v, none for zero
RECURSIVE Bytes(_)
Bytes(v) == IF v = 0 THEN <<>> ELSE Append(Bytes(v \div 256), v % 256)

\* big.Int.SetBytes
RECURSIVE SetBytes(_)
SetBytes(b) ==
    IF b = <<>> THEN 0
    ELSE 256 * SetBytes(SubSeq(b, 1, Len(b) - 1)) + b[Len(b)]

BigIntToBytes(n) == IF n = Nil THEN <<>> ELSE Bytes(n[1])

BytesToBigInt(b) == <<SetBytes(b)>>

\* the stored form of a share and the share read back from it
EncodeShare(share) ==
    [share EXCEPT !.ShareTarget = BigIntToBytes(share.ShareTarget)]

DecodeShare(rec) ==
    [rec EXCEPT !.ShareTarget = BytesToBigInt(rec.ShareTarget)]

EmptyDB == [shares |-> <<>>, tip |-> Nil]

\* a store that starts every run with empty buckets
NewBoltStore_Fresh(file) == EmptyDB

\* NewBoltStore: open the file, creating it and its buckets when missing
NewBoltStore(file) == IF file = Nil THEN EmptyDB ELSE file[1]

\* an add that writes over the stored share
BoltAdd_Overwrite(db, share) ==
    [db |-> [db EXCEPT !.shares =
                (share.Hash :> EncodeShare(share)) @@ db.shares],
     err |-> NoError]

\* add(share)
BoltAdd(db, share) ==
    IF share.Hash \in DOMAIN db.shares
    THEN [db |-> db, err |-> DuplicateShare]
    ELSE [db |-> [db EXCEPT !.shares =
                     db.shares @@ (share.Hash :> EncodeShare(share))],
          err |-> NoError]

\* get(hash): Nil when not found
BoltGet(db, hash) ==
    IF hash \in DOMAIN db.shares THEN <<DecodeShare(db.shares[hash])>> ELSE Nil

BoltHas(db, hash) == hash \in DOMAIN db.shares

BoltCount(db) == Cardinality(DOMAIN db.shares)

BoltSetTip(db, hash) == [db EXCEPT !.tip = <<hash>>]

\* tip(): the share the tip pointer names, Nil when absent
BoltTip(db) == IF db.tip = Nil THEN Nil ELSE BoltGet(db, db.tip[1])

\* get_ancestors(start_hash, max)
BoltGetAncestors(db, startHash, max) ==
    GetAncestors([h \in DOMAIN db.shares |-> DecodeShare(db.shares[h])],
                 startHash, max)

(***************************************************************************)
(* Share store: specification                                              *)
(***************************************************************************)
NumBoltHashes == 3

MaxAncestors == 4

BoltHashes == {10 + i : i \in 1..NumBoltHashes}

\* shares with one header each per hash; the parent of a share has a
\* smaller hash here, and need not be stored
BoltShares ==
    {MakeShare(h, prev, CBase, <<MaxShareTarget>>, 1, address, "good") :
        h \in BoltHashes,
        prev \in {ZeroHash} \cup BoltHashes,
        address \in {ValidAddress, OtherAddress}}

BoltInputs == {share \in BoltShares : share.PrevShareHash < share.Hash}

\* what count, tip, get and get_ancestors return
Observe(db) ==
    [count |-> BoltCount(db),
     tip |-> BoltTip(db),
     get |-> [h \in BoltHashes \cup {UnknownHash} |-> BoltGet(db, h)],
     ancestors |-> [h \in BoltHashes \cup {UnknownHash} |->
                      [max \in 0..MaxAncestors |-> BoltGetAncestors(db, h, max)]]]

BoltOthers == <<payVars, diffVars, chainVars, merkleVars, syncVars, genVars, stratumVars, compactVars, listenerVars, roundVars, gossipVars, submitVars, shareVars, emitVars, backoffVars, refreshVars, outageVars, notifyVars, wireVars, cancelVars, snapVars, normVars>>

BInit == PIdle /\ DIdle /\ CIdle /\ NodeIdle

Called(op, arg, result) ==
    [op |-> op, arg |-> arg, result |-> result, before |-> boltFile[1]]

\* NewBoltStore(path)
BOpen ==
    /\ ~boltOpen
    /\ boltOpen' = TRUE
    /\ boltFile' = <<NewBoltStore(boltFile)>>
    /\ boltCall' = [op |-> "open", arg |-> Nil, result |-> NoError,
                    before |-> boltFile'[1]]
    /\ UNCHANGED <<boltSeen, BoltOthers>>

\* store.Add(share)
BAdd(share) ==
    /\ boltOpen
    /\ LET r == BoltAdd(boltFile[1], share)
       IN  /\ boltFile' = <<r.db>>
           /\ boltCall' = Called("add", share, r.err)
           /\ boltSeen' = IF r.err = NoError THEN Nil ELSE boltSeen
    /\ UNCHANGED <<boltOpen, BoltOthers>>

\* store.SetTip(hash)
BSetTip(hash) ==
    /\ boltOpen
    /\ hash \in DOMAIN boltFile[1].shares
    /\ boltFile' = <<BoltSetTip(boltFile[1], hash)>>
    /\ boltCall' = Called("settip", hash, NoError)
    /\ boltSeen' = Nil
    /\ UNCHANGED <<boltOpen, BoltOthers>>

\* store.Get(hash), store.Tip(), store.Count()
BGet(hash) ==
    /\ boltOpen
    /\ boltCall' = Called("get", hash, BoltGet(boltFile[1], hash))
    /\ UNCHANGED <<boltFile, boltOpen, boltSeen, BoltOthers>>

BTip ==
    /\ boltOpen
    /\ boltCall' = Called("tip", Nil, BoltTip(boltFile[1]))
    /\ UNCHANGED <<boltFile, boltOpen, boltSeen, BoltOthers>>

BCount ==
    /\ boltOpen
    /\ boltCall' = Called("count", Nil, BoltCount(boltFile[1]))
    /\ UNCHANGED <<boltFile, boltOpen, boltSeen, BoltOthers>>

\* store.GetAncestors(hash, max)
BGetAncestors(hash, max) ==
    /\ boltOpen
    /\ boltCall' = Called("ancestors", [hash |-> hash, max |-> max],
                          BoltGetAncestors(boltFile[1], hash, max))
    /\ UNCHANGED <<boltFile, boltOpen, boltSeen, BoltOthers>>

\* store.Close()
BClose ==
    /\ boltOpen
    /\ boltOpen' = FALSE
    /\ boltSeen' = <<Observe(boltFile[1])>>
    /\ boltCall' = Called("close", Nil, NoError)
    /\ UNCHANGED <<boltFile, BoltOthers>>

BNext ==
    \/ BOpen
    \/ \E share \in BoltInputs : BAdd(share)
    \/ \E hash \in BoltHashes : BSetTip(hash)
    \/ \E hash \in BoltHashes \cup {UnknownHash} : BGet(hash)
    \/ BTip
    \/ BCount
    \/ \E hash \in BoltHashes \cup {UnknownHash}, max \in 0..MaxAncestors :
          BGetAncestors(hash, max)
    \/ BClose

SpecBolt == BInit /\ [][BNext]_vars

(***************************************************************************)
(* Share store: properties                                                 *)
(***************************************************************************)
\* C17: an add of a share whose hash is stored returns the duplicate-share
\* error and leaves the count, the share stored under that hash and the tip
\* pointer as they were
C17_DuplicateAddRejected ==
    (boltCall # Nil /\ boltCall.op = "add"
        /\ BoltHas(boltCall.before, boltCall.arg.Hash)) =>
        /\ boltCall.result = DuplicateShare
        /\ BoltCount(boltFile[1]) = BoltCount(boltCall.before)
        /\ BoltGet(boltFile[1], boltCall.arg.Hash) =
              BoltGet(boltCall.before, boltCall.arg.Hash)
        /\ boltFile[1].tip = boltCall.before.tip
        /\ boltFile[1] = boltCall.before

\* a second share with the stored hash, but another miner, was refused
C17_Witness ==
    /\ boltCall # Nil
    /\ boltCall.op = "add"
    /\ boltCall.result = DuplicateShare
    /\ boltFile[1].tip # Nil
    /\ BoltGet(boltFile[1], boltCall.arg.Hash) # Nil
    /\ BoltGet(boltFile[1], boltCall.arg.Hash)[1].MinerAddress
          # boltCall.arg.MinerAddress

\* the hash k steps back from startHash along prev_share_hash, the unknown
\* hash once a share on the way is not stored
RECURSIVE AncestorHash(_, _, _)
AncestorHash(db, startHash, k) ==
    IF k = 0 THEN startHash
    ELSE LET h == AncestorHash(db, startHash, k - 1)
         IN  IF BoltHas(db, h) THEN db.shares[h].PrevShareHash ELSE UnknownHash

\* the number of stored shares on the path from startHash back to genesis
\* or to the first missing parent
PathLength(db, startHash) ==
    Cardinality({k \in 0..NumBoltHashes :
                    \A j \in 0..k : BoltHas(db, AncestorHash(db, startHash, j))})

\* C18: get_ancestors(start, max) begins with the share start, continues
\* with the share each element names as its parent, and has the smaller of
\* max and the length of the stored path as its length
C18_AncestorsWalkBack ==
    (boltCall # Nil /\ boltCall.op = "ancestors") =>
        LET got == boltCall.result
            db == boltCall.before
        IN  /\ Len(got) = Min(boltCall.arg.max, PathLength(db, boltCall.arg.hash))
            /\ Len(got) > 0 => got[1] = BoltGet(db, boltCall.arg.hash)[1]
            /\ \A i \in 2..Len(got) :
                  /\ BoltHas(db, got[i - 1].PrevShareHash)
                  /\ got[i] = BoltGet(db, got[i - 1].PrevShareHash)[1]

\* three shares in a row are stored; max = 2 cuts the walk short
C18_Witness ==
    /\ boltCall # Nil
    /\ boltCall.op = "ancestors"
    /\ boltCall.arg.max = 2
    /\ PathLength(boltFile[1], boltCall.arg.hash) = 3
    /\ Len(boltCall.result) = 2
    /\ boltCall.result[2].Hash = boltCall.result[1].PrevShareHash

\* C19: a store that was closed and opened again on the same path returns
\* from count, tip, get and get_ancestors what it returned just before the
\* close
C19_ReopenReturnsTheSame ==
    (boltOpen /\ boltSeen # Nil) => Observe(boltFile[1]) = boltSeen[1]

\* three shares and a tip were stored before the close; after the reopen
\* the walk from the tip still finds all three
C19_Witness ==
    /\ boltOpen
    /\ boltSeen # Nil
    /\ boltSeen[1].count = 3
    /\ boltSeen[1].tip # Nil
    /\ boltCall.op = "ancestors"
    /\ boltCall.arg.hash = boltSeen[1].tip[1].Hash
    /\ Len(boltCall.result) = 3
    /\ boltCall.result[1].ShareTarget = <<MaxShareTarget>>
    /\ boltCall.result[1].MinerAddress = OtherAddress

(***************************************************************************)
(* internal/stratum: the extranonce1 of a session                          *)
(*                                                                         *)
(* Every session is served by its own task; mining.subscribe takes the     *)
(* next extranonce1 from the server in one atomic step and sends it in the *)
(* response in a later one.                                                *)
(***************************************************************************)
serverVars == <<extranonceCounter, sessions, subscribed>>

connVars == <<pcPrefix, pcRead, pcStream, pcWant, pcGot, pcEOF>>

\* the width of extranonce1 in bytes
ExtranonceSize == 4

\* the last n hexadecimal digits of v, most significant first
RECURSIVE HexDigits(_, _)
HexDigits(v, n) ==
    IF n = 0 THEN <<>> ELSE Append(HexDigits(v \div 16, n - 1), v % 16)

\* a generator that hands out its value without advancing
NextExtranonce_Stale(counter) == counter

\* the generator's atomic increment
NextExtranonce(counter) == counter + 1

\* the 4-byte extranonce1 as the response carries it
Extranonce1(value) == HexDigits(value, 2 * ExtranonceSize)

(***************************************************************************)
(* Extranonce: specification                                               *)
(***************************************************************************)
NumConns == 3

MaxSubscribes == 5

Conns == 1..NumConns

ServerOthers == <<payVars, diffVars, chainVars, merkleVars, syncVars, genVars, boltVars, connVars, compactVars, listenerVars, roundVars, gossipVars, submitVars, shareVars, emitVars, backoffVars, refreshVars, outageVars, notifyVars, wireVars, cancelVars, snapVars, normVars>>

TInit == PIdle /\ DIdle /\ CIdle /\ NodeIdle

\* the server accepts a connection
Connect(c) ==
    /\ c \notin DOMAIN sessions
    /\ sessions' = sessions @@ (c :> [state |-> "connected", extranonce1 |-> Nil])
    /\ UNCHANGED <<extranonceCounter, subscribed, ServerOthers>>

\* the session reads mining.subscribe and takes its extranonce1
Subscribe(c) ==
    /\ c \in DOMAIN sessions
    /\ sessions[c].state = "connected"
    /\ extranonceCounter < MaxSubscribes
    /\ extranonceCounter' = NextExtranonce(extranonceCounter)
    /\ sessions' = [sessions EXCEPT ![c] =
          [state |-> "subscribing",
           extranonce1 |-> <<Extranonce1(extranonceCounter')>>]]
    /\ UNCHANGED <<subscribed, ServerOthers>>

\* the session sends the mining.subscribe response
Respond(c) ==
    /\ c \in DOMAIN sessions
    /\ sessions[c].state = "subscribing"
    /\ sessions' = [sessions EXCEPT ![c].state = "subscribed"]
    /\ subscribed' = Append(subscribed, sessions[c].extranonce1[1])
    /\ UNCHANGED <<extranonceCounter, ServerOthers>>

\* the connection ends
Disconnect(c) ==
    /\ c \in DOMAIN sessions
    /\ sessions' = [d \in DOMAIN sessions \ {c} |-> sessions[d]]
    /\ UNCHANGED <<extranonceCounter, subscribed, ServerOthers>>

TNext ==
    \/ \E c \in Conns : Connect(c)
    \/ \E c \in Conns : Subscribe(c)
    \/ \E c \in Conns : Respond(c)
    \/ \E c \in Conns : Disconnect(c)

SpecStratum == TInit /\ [][TNext]_vars

(***************************************************************************)
(* Extranonce: properties                                                  *)
(***************************************************************************)
\* C16: the extranonce1 values of the mining.subscribe responses are
\* pairwise distinct, and so are those of the sessions that hold one
C16_ExtranoncesDistinct ==
    /\ \A i, j \in 1..Len(subscribed) :
          i # j => subscribed[i] # subscribed[j]
    /\ \A c, d \in DOMAIN sessions :
          (c # d /\ sessions[c].extranonce1 # Nil) =>
              sessions[c].extranonce1 # sessions[d].extranonce1

\* three sessions are subscribed at once, and the first response carried
\* the value that was taken second
C16_Witness ==
    /\ Len(subscribed) >= 3
    /\ subscribed[1] = Extranonce1(2)
    /\ subscribed[2] = Extranonce1(1)
    /\ \A c \in Conns :
          c \in DOMAIN sessions /\ sessions[c].state = "subscribed"

(***************************************************************************)
(* internal/stratum: prefixConn, the connection that gives back the bytes  *)
(* peeked from it before the bytes that follow                             *)
(***************************************************************************)
\* a read that forgets the part of the prefix the buffer had no room for
PrefixRead_DropsRest(prefix, size) ==
    [out |-> SubSeq(prefix, 1, Min(size, Len(prefix))), rest |-> <<>>]

\* Read while prefix bytes are left: copy as many as the buffer takes
PrefixRead(prefix, size) ==
    [out |-> SubSeq(prefix, 1, Min(size, Len(prefix))),
     rest |-> SubSeq(prefix, Min(size, Len(prefix)) + 1, Len(prefix))]

(***************************************************************************)
(* prefixConn: specification                                               *)
(***************************************************************************)
MaxPrefix == 2

MaxStream == 3

MaxBuf == 3

ConnBytes == {1, 2}

SeqsUpTo(n) == UNION {[1..k -> ConnBytes] : k \in 0..n}

ConnOthers == <<payVars, diffVars, chainVars, merkleVars, syncVars, genVars, boltVars, serverVars, compactVars, listenerVars, roundVars, gossipVars, submitVars, shareVars, emitVars, backoffVars, refreshVars, outageVars, notifyVars, wireVars, cancelVars, snapVars, normVars>>

PcInit == PIdle /\ DIdle /\ CIdle /\ NodeIdle

\* the server peeks prefix from a connection that will deliver underlying
\* and wraps it
WrapConn(prefix, underlying) ==
    /\ pcWant = Nil
    /\ pcPrefix' = prefix
    /\ pcRead' = FALSE
    /\ pcStream' = underlying
    /\ pcWant' = <<prefix \o underlying>>
    /\ pcGot' = <<>>
    /\ pcEOF' = FALSE
    /\ UNCHANGED ConnOthers

\* prefixConn.Read with a buffer of size bytes, the prefix not used up
ReadPrefix(size) ==
    /\ pcWant # Nil
    /\ ~pcRead
    /\ pcPrefix # <<>>
    /\ LET r == PrefixRead(pcPrefix, size)
       IN  /\ pcGot' = pcGot \o r.out
           /\ pcPrefix' = r.rest
    /\ UNCHANGED <<pcRead, pcStream, pcWant, pcEOF, ConnOthers>>

\* prefixConn.Read passed on to the underlying connection, which delivers
\* count bytes
ReadStream(size, count) ==
    /\ pcWant # Nil
    /\ pcRead \/ pcPrefix = <<>>
    /\ pcStream # <<>>
    /\ count <= Min(size, Len(pcStream))
    /\ pcRead' = TRUE
    /\ pcGot' = pcGot \o SubSeq(pcStream, 1, count)
    /\ pcStream' = SubSeq(pcStream, count + 1, Len(pcStream))
    /\ UNCHANGED <<pcPrefix, pcWant, pcEOF, ConnOthers>>

\* prefixConn.Read at the end of the underlying stream: io.EOF
ReadEOF ==
    /\ pcWant # Nil
    /\ pcRead \/ pcPrefix = <<>>
    /\ pcStream = <<>>
    /\ ~pcEOF
    /\ pcRead' = TRUE
    /\ pcEOF' = TRUE
    /\ UNCHANGED <<pcPrefix, pcStream, pcWant, pcGot, ConnOthers>>

PcNext ==
    \/ \E prefix \in SeqsUpTo(MaxPrefix), underlying \in SeqsUpTo(MaxStream) :
          WrapConn(prefix, underlying)
    \/ \E size \in 1..MaxBuf : ReadPrefix(size)
    \/ \E size \in 1..MaxBuf, count \in 1..MaxBuf : ReadStream(size, count)
    \/ ReadEOF

SpecPrefixConn == PcInit /\ [][PcNext]_vars

(***************************************************************************)
(* prefixConn: properties                                                  *)
(***************************************************************************)
\* C20: the bytes read so far, followed by the bytes still to be read, are
\* the prefix followed by the underlying stream; at EOF the bytes read are
\* all of them
C20_ReadsPrefixThenStream ==
    pcWant # Nil =>
        /\ pcGot \o pcPrefix \o pcStream = pcWant[1]
        /\ pcEOF => pcGot = pcWant[1]

\* a prefix of two bytes and a stream of three were read to EOF
C20_Witness ==
    /\ pcWant = <<(<<1, 2, 2, 1, 2>>)>>
    /\ pcEOF
    /\ pcGot = <<1, 2, 2, 1, 2>>
    /\ pcRead

(***************************************************************************)
(* pkg/util: the compact round trip, compact -> target -> compact          *)
(***************************************************************************)
\* the exponents whose targets stay below 2^31
CompactExponents == {3, 4}

MantissaStep == 131071

\* mantissas between 0x008000 and 0x7fffff: both ends, the two-byte and
\* three-byte border, and a spread in between
CompactMantissas ==
    {32768, 32769, 65535, 65536, 65537, 1193046, 8388606, 8388607}
    \cup {m \in {32768 + MantissaStep * k : k \in 1..63} : m <= 8388607}

\* the compact values in canonical form that are converted
CanonicalCompacts ==
    {e * 16777216 + m : e \in CompactExponents, m \in CompactMantissas}

CompactOthers == <<payVars, diffVars, chainVars, merkleVars, syncVars, genVars, boltVars, stratumVars, listenerVars, roundVars, gossipVars, submitVars, shareVars, emitVars, backoffVars, refreshVars, outageVars, notifyVars, wireVars, cancelVars, snapVars, normVars>>

KInit == PIdle /\ DIdle /\ CIdle /\ NodeIdle

\* target := CompactToTarget(compact)
KToTarget(compact) ==
    /\ cmpIn = Nil
    /\ cmpIn' = <<compact>>
    /\ cmpTarget' = <<CompactToTarget(compact)>>
    /\ cmpOut' = Nil
    /\ UNCHANGED CompactOthers

\* got := TargetToCompact(target)
KToCompact ==
    /\ cmpTarget # Nil
    /\ cmpOut = Nil
    /\ cmpOut' = <<TargetToCompact(cmpTarget[1])>>
    /\ UNCHANGED <<cmpIn, cmpTarget, CompactOthers>>

\* the next value of the test table
KDone ==
    /\ cmpOut # Nil
    /\ cmpIn' = Nil
    /\ cmpTarget' = Nil
    /\ cmpOut' = Nil
    /\ UNCHANGED CompactOthers

KNext ==
    \/ \E compact \in CanonicalCompacts : KToTarget(compact)
    \/ KToCompact
    \/ KDone

SpecCompact == KInit /\ [][KNext]_vars

\* C22: for a compact value in canonical form, the compact value of its
\* target is the value itself
C22_CompactRoundTrip ==
    cmpOut # Nil => cmpOut[1] = cmpIn[1]

(***************************************************************************)
(* internal/stratum: singleConnListener, the listener that serves the one  *)
(* connection routed to the HTTP handler                                   *)
(***************************************************************************)
ErrClosed == "net.ErrClosed"

\* a Close that closes the done channel whatever its state: closing a
\* closed channel panics
CloseDone_Unguarded(done) == [done |-> TRUE, panic |-> done]

\* Close: close the done channel unless it is closed already
CloseDone(done) == [done |-> TRUE, panic |-> FALSE]

(***************************************************************************)
(* singleConnListener: specification                                       *)
(***************************************************************************)
NumAcceptors == 4

MaxCloses == 3

Acceptors == 1..NumAcceptors

ListenerOthers == <<payVars, diffVars, chainVars, merkleVars, syncVars, genVars, boltVars, stratumVars, compactVars, roundVars, gossipVars, submitVars, shareVars, emitVars, backoffVars, refreshVars, outageVars, notifyVars, wireVars, cancelVars, snapVars, normVars>>

LInit == PIdle /\ DIdle /\ CIdle /\ NodeIdle

Calling(a) == a \in slBlocked \/ \E r \in slResults : r.caller = a

\* l.Accept() up to the point where it returns the connection or waits
Accept(a) ==
    /\ ~slPanic
    /\ ~Calling(a)
    /\ slFirst' = IF slFirst = Nil THEN <<a>> ELSE slFirst
    /\ IF ~slTaken
       THEN /\ slTaken' = TRUE
            /\ slResults' = slResults \cup {[caller |-> a, result |-> "conn"]}
            /\ UNCHANGED slBlocked
       ELSE /\ slBlocked' = slBlocked \cup {a}
            /\ UNCHANGED <<slTaken, slResults>>
    /\ UNCHANGED <<slDone, slCloses, slPanic, ListenerOthers>>

\* a waiting Accept sees the done channel closed and returns
AcceptReturns(a) ==
    /\ a \in slBlocked
    /\ slDone
    /\ slBlocked' = slBlocked \ {a}
    /\ slResults' = slResults \cup {[caller |-> a, result |-> ErrClosed]}
    /\ UNCHANGED <<slTaken, slDone, slFirst, slCloses, slPanic, ListenerOthers>>

\* l.Close()
CloseListener ==
    /\ ~slPanic
    /\ slCloses < MaxCloses
    /\ slDone' = CloseDone(slDone).done
    /\ slPanic' = CloseDone(slDone).panic
    /\ slCloses' = IF slPanic' THEN slCloses ELSE slCloses + 1
    /\ UNCHANGED <<slTaken, slFirst, slBlocked, slResults, ListenerOthers>>

LNext ==
    \/ \E a \in Acceptors : Accept(a)
    \/ \E a \in Acceptors : AcceptReturns(a)
    \/ CloseListener

\* a goroutine waiting on a closed channel is scheduled
SpecListener ==
    /\ LInit
    /\ [][LNext]_vars
    /\ \A a \in Acceptors : WF_vars(AcceptReturns(a))

(***************************************************************************)
(* singleConnListener: properties                                          *)
(***************************************************************************)
\* the connection went to the first Accept and to no other; an Accept
\* returned net.ErrClosed only after Close; nothing panicked
AcceptedOnce ==
    /\ slFirst # Nil => [caller |-> slFirst[1], result |-> "conn"] \in slResults
    /\ \A r \in slResults :
          /\ r.result = "conn" => slFirst = <<r.caller>>
          /\ r.result = ErrClosed => slDone
    /\ slBlocked # {} => slTaken
    /\ ~slPanic

syncStreamTimeout == 30

\* handleStream: stream.SetDeadline(time.Now().Add(syncStreamTimeout))
HandleStreamDeadline(t) == <<t + syncStreamTimeout>>

\* RequestLocator opens the stream and sets no deadline on it
RequestLocatorDeadline(t) == Nil

\* io.ReadAll on a stream returns when the peer closed its write side or
\* when the stream's deadline has passed
ReadAllReturns(peerClosed, deadline, t) ==
    peerClosed \/ (deadline # Nil /\ t >= deadline[1])

(***************************************************************************)
(* sync round: specification                                               *)
(***************************************************************************)
MaxClock == 32

RoundOthers == <<payVars, diffVars, chainVars, merkleVars, syncVars, genVars, boltVars, stratumVars, compactVars, listenerVars, gossipVars, submitVars, shareVars, emitVars, backoffVars, refreshVars, outageVars, notifyVars, wireVars, cancelVars, snapVars, normVars>>

RInit == PIdle /\ DIdle /\ CIdle /\ NodeIdle

\* a second passes
SecondPasses ==
    /\ rdClock < MaxClock
    /\ rdClock' = rdClock + 1
    /\ UNCHANGED <<srvPc, srvDeadline, remHalfClosed, cliPc, cliDeadline, remClosed, RoundOthers>>

\* handleStream up to its read
ServeStream ==
    /\ srvPc = "idle"
    /\ rdClock + syncStreamTimeout <= MaxClock
    /\ srvDeadline' = HandleStreamDeadline(rdClock)
    /\ srvPc' = "reading"
    /\ UNCHANGED <<rdClock, remHalfClosed, cliPc, cliDeadline, remClosed, RoundOthers>>

\* the requesting peer sends its request and closes its write side
PeerHalfCloses ==
    /\ srvPc = "reading"
    /\ ~remHalfClosed
    /\ remHalfClosed' = TRUE
    /\ UNCHANGED <<rdClock, srvPc, srvDeadline, cliPc, cliDeadline, remClosed, RoundOthers>>

\* handleStream from the return of its read to the deferred stream.Close()
ServeReturns ==
    /\ srvPc = "reading"
    /\ ReadAllReturns(remHalfClosed, srvDeadline, rdClock)
    /\ srvPc' = "closed"
    /\ UNCHANGED <<rdClock, srvDeadline, remHalfClosed, cliPc, cliDeadline, remClosed, RoundOthers>>

\* RequestLocator up to its read; opening the stream may fail
RequestLocator(opened) ==
    /\ cliPc = "idle"
    /\ IF opened
       THEN /\ cliDeadline' = RequestLocatorDeadline(rdClock)
            /\ cliPc' = "reading"
       ELSE /\ cliPc' = "returned"
            /\ UNCHANGED cliDeadline
    /\ UNCHANGED <<rdClock, srvPc, srvDeadline, remHalfClosed, remClosed, RoundOthers>>

\* the serving peer writes its response and closes the stream
PeerResponds ==
    /\ cliPc = "reading"
    /\ ~remClosed
    /\ remClosed' = TRUE
    /\ UNCHANGED <<rdClock, srvPc, srvDeadline, remHalfClosed, cliPc, cliDeadline, RoundOthers>>

\* RequestLocator from the return of its read to its own return
RequestReturns ==
    /\ cliPc = "reading"
    /\ ReadAllReturns(remClosed, cliDeadline, rdClock)
    /\ cliPc' = "returned"
    /\ UNCHANGED <<rdClock, srvPc, srvDeadline, remHalfClosed, cliDeadline, remClosed, RoundOthers>>

RNext ==
    \/ SecondPasses
    \/ ServeStream
    \/ PeerHalfCloses
    \/ ServeReturns
    \/ \E opened \in BOOLEAN : RequestLocator(opened)
    \/ PeerResponds
    \/ RequestReturns

\* time passes and a read that can return does; the peer owes nothing
SpecRound ==
    /\ RInit
    /\ [][RNext]_vars
    /\ WF_vars(SecondPasses)
    /\ WF_vars(ServeReturns)
    /\ WF_vars(RequestReturns)

(***************************************************************************)
(* sync round: properties                                                  *)
(***************************************************************************)
\* handleStream returns and closes its stream
ServerRoundEnds == (srvPc = "reading") ~> (srvPc = "closed")

\* C23: a sync round ends on both sides whatever the peer does:
\* handleStream returns and closes the stream, RequestLocator returns
C23_RoundsTerminate ==
    /\ (srvPc = "reading") ~> (srvPc = "closed")
    /\ (cliPc = "reading") ~> (cliPc = "returned")

(***************************************************************************)
(* internal/p2p: the gossip read loop                                      *)
(***************************************************************************)
\* make(chan *ShareMsg, 256), scaled
incomingSharesSize == 2

\* rate.NewLimiter(10, 20): one token per tenth of a second; the burst scaled
limiterBurst == 2

\* the size from which getPeerLimiter evicts an entry, 500, scaled
maxPeerLimiters == 2

\* a send that waits for room never leaves the queue as it found it
TrySend_Unchecked(queue, share) == Append(queue, share)

\* select { case incomingShares <- share: default: }
TrySend(queue, share) ==
    IF Len(queue) < incomingSharesSize THEN Append(queue, share) ELSE queue

\* a map that grows with every new source
GetPeerLimiter_NoEviction(limiters, peerID, victim) ==
    IF peerID \in DOMAIN limiters
    THEN limiters
    ELSE [q \in DOMAIN limiters \cup {peerID} |->
             IF q = peerID THEN limiterBurst ELSE limiters[q]]

\* getPeerLimiter: the source's limiter, a new one after the eviction of
\* victim if the source has none and the map is full
GetPeerLimiter(limiters, peerID, victim) ==
    IF peerID \in DOMAIN limiters
    THEN limiters
    ELSE LET kept == IF Cardinality(DOMAIN limiters) >= maxPeerLimiters
                     THEN DOMAIN limiters \ {victim}
                     ELSE DOMAIN limiters
         IN [q \in kept \cup {peerID} |->
                IF q = peerID THEN limiterBurst ELSE limiters[q]]

\* Limiter.Allow: take a token if there is one
Allow(tokens) == [ok |-> tokens >= 1, tokens |-> IF tokens >= 1 THEN tokens - 1 ELSE tokens]

(***************************************************************************)
(* gossip read loop: specification                                         *)
(***************************************************************************)
NumPeers == 3

MaxTenths == 1

MaxPassed == limiterBurst + MaxTenths + 1

\* the node itself
Self == 0

Sources == 0..NumPeers

GossipOthers == <<payVars, diffVars, chainVars, merkleVars, syncVars, genVars, boltVars, stratumVars, compactVars, listenerVars, roundVars, submitVars, shareVars, emitVars, backoffVars, refreshVars, outageVars, notifyVars, wireVars, cancelVars, snapVars, normVars>>

OInit == PIdle /\ DIdle /\ CIdle /\ NodeIdle

\* NewPubSub
NewPubSub ==
    /\ gsPassed = Nil
    /\ gsPassed' = [q \in Sources |-> 0]
    /\ UNCHANGED <<gsQueue, gsLimiters, gsClock, gsDropped, GossipOthers>>

\* a tenth of a second passes: every limiter gains a token up to its burst
TenthPasses ==
    /\ gsPassed # Nil
    /\ gsClock < MaxTenths
    /\ gsClock' = gsClock + 1
    /\ gsLimiters' = [q \in DOMAIN gsLimiters |->
                         IF gsLimiters[q] < limiterBurst THEN gsLimiters[q] + 1 ELSE limiterBurst]
    /\ UNCHANGED <<gsQueue, gsPassed, gsDropped, GossipOthers>>

\* one iteration of readLoop on a message from a source that decodes or not
ReadLoop(from, decodes, victim) ==
    /\ gsPassed # Nil
    /\ IF from = Self
       THEN UNCHANGED <<gsQueue, gsLimiters, gsPassed, gsDropped>>
       ELSE LET lims == GetPeerLimiter(gsLimiters, from, victim)
                a == Allow(lims[from])
            IN /\ gsLimiters' = [lims EXCEPT ![from] = a.tokens]
               /\ IF a.ok /\ decodes
                  THEN /\ gsQueue' = TrySend(gsQueue, from)
                       /\ gsDropped' = (gsDropped \/ gsQueue' = gsQueue)
                       /\ gsPassed' = [gsPassed EXCEPT ![from] =
                              IF gsQueue' = gsQueue \/ @ >= MaxPassed THEN @ ELSE @ + 1]
                  ELSE UNCHANGED <<gsQueue, gsPassed, gsDropped>>
    /\ UNCHANGED <<gsClock, GossipOthers>>

\* the node takes a share off the queue
TakeShare ==
    /\ gsQueue # <<>>
    /\ gsQueue' = Tail(gsQueue)
    /\ UNCHANGED <<gsLimiters, gsClock, gsPassed, gsDropped, GossipOthers>>

GossipNext ==
    \/ NewPubSub
    \/ TenthPasses
    \/ \E from \in Sources, decodes \in BOOLEAN, victim \in Sources :
          /\ victim \in DOMAIN gsLimiters \/ (gsLimiters = Nil /\ victim = Self)
          /\ ReadLoop(from, decodes, victim)
    \/ TakeShare

SpecGossip == OInit /\ [][GossipNext]_vars

(***************************************************************************)
(* gossip read loop: properties                                            *)
(***************************************************************************)
\* C24: the read loop never waits on the incoming-share queue: the queue
\* never holds more than its capacity and an iteration can run whatever the
\* queue holds
C24_ReadLoopNeverBlocks ==
    /\ Len(gsQueue) <= incomingSharesSize
    /\ gsPassed # Nil =>
          \A from \in Sources, decodes \in BOOLEAN :
             \E victim \in Sources : ENABLED ReadLoop(from, decodes, victim)

\* a share arrived at a full queue and was dropped
C24_Witness == gsDropped /\ Len(gsQueue) = incomingSharesSize

\* C25: no source gets more than the burst plus one message per tenth of
\* a second decoded and enqueued, and no message of the node itself is
\* enqueued
C25_PerSourceRateBound ==
    /\ gsPassed # Nil =>
          \A q \in Sources : gsPassed[q] <= limiterBurst + gsClock
    /\ \A i \in 1..Len(gsQueue) : gsQueue[i] # Self

(***************************************************************************)
(* internal/work: the header of a submission and its merkle root check     *)
(*                                                                         *)
(* Bytes and hex strings are those of the merkle section.  A header is its *)
(* byte string: version, previous block hash, merkle root, ntime, nbits,   *)
(* nonce; the two hashes have PrevHashSize and HashSize bytes.             *)
(***************************************************************************)
\* the bytes of version, ntime, nbits and nonce
HeaderFieldSize == 4

\* the bytes of the previous block hash, 32, scaled
PrevHashSize == 4

\* the offset of the merkle root in the header, 36 with a 32-byte hash
MerkleRootOffset == HeaderFieldSize + PrevHashSize

MerkleMismatch == "merkle root mismatch"

HeaderTooShort == "header too short"

\* util.ReverseBytes
ReverseBytes(b) == [i \in 1..Len(b) |-> b[Len(b) + 1 - i]]

\* swapWords4: every whole 4-byte word byte-swapped
SwapWords4(b) ==
    [i \in 1..Len(b) |->
        LET w == ((i - 1) \div 4) * 4
        IN  IF w + 4 <= Len(b) THEN b[w + 4 - ((i - 1) % 4)] ELSE b[i]]

\* hexBEToLE(hexStr, expectedLen): the bytes, and whether it failed
HexBEToLE(hexStr, expectedLen) ==
    IF HexValid(hexStr) /\ Len(hexStr) = 2 * expectedLen
    THEN [bytes |-> ReverseBytes(HexDecode(hexStr)), err |-> FALSE]
    ELSE [bytes |-> <<>>, err |-> TRUE]

\* displayToStratumPrevHash on a valid hash
DisplayToStratumPrevHash(displayHex) ==
    HexEncode(SwapWords4(ReverseBytes(HexDecode(displayHex))))

\* stratumPrevHashToInternal: the bytes, and whether it failed
StratumPrevHashToInternal(stratumHex) ==
    IF HexValid(stratumHex) /\ Len(stratumHex) = 2 * PrevHashSize
    THEN [bytes |-> SwapWords4(HexDecode(stratumHex)), err |-> FALSE]
    ELSE [bytes |-> <<>>, err |-> TRUE]

\* txids left in display order
ExtractTxHashes_DisplayOrder(txids) == txids

\* extractTxHashes: the template's txids from display to internal order
ExtractTxHashes(txids) ==
    [i \in 1..Len(txids) |-> HexEncode(ReverseBytes(HexDecode(txids[i])))]

\* SplitCoinbase
SplitCoinbase(coinbaseTx, extranonceOffset, extranonceSize) ==
    [coinbase1 |-> HexEncode(SubSeq(coinbaseTx, 1, extranonceOffset)),
     coinbase2 |-> HexEncode(SubSeq(coinbaseTx, extranonceOffset + extranonceSize + 1,
                                    Len(coinbaseTx)))]

\* BuildJobFromTemplate, the coinbase as the builder returned it
BuildJobFromTemplate(tmpl, coinbaseTx, extranonceOffset, extranonceSize) ==
    LET split == SplitCoinbase(coinbaseTx, extranonceOffset, extranonceSize)
        br == ComputeMerkleBranches(tmpl.TxHashes)
    IN  [err |-> br.err,
         PrevBlockHash |-> DisplayToStratumPrevHash(tmpl.PrevBlockHash),
         Coinbase1 |-> split.coinbase1,
         Coinbase2 |-> split.coinbase2,
         MerkleBranches |-> br.branches,
         NBits |-> tmpl.Bits]

\* ReconstructHeader: the header, the coinbase bytes, and whether it failed
ReconstructHeader(job, version, extranonce1, extranonce2, ntime, nonce) ==
    LET coinbaseHex == job.Coinbase1 \o extranonce1 \o extranonce2 \o job.Coinbase2
        coinbaseBytes == HexDecode(coinbaseHex)
        merkle == ComputeMerkleRoot(DoubleSHA256(coinbaseBytes), job.MerkleBranches)
        versionBytes == HexBEToLE(version, HeaderFieldSize)
        prevHashBytes == StratumPrevHashToInternal(job.PrevBlockHash)
        ntimeBytes == HexBEToLE(ntime, HeaderFieldSize)
        nbitsBytes == HexBEToLE(job.NBits, HeaderFieldSize)
        nonceBytes == HexBEToLE(nonce, HeaderFieldSize)
    IN  IF \/ ~HexValid(coinbaseHex) \/ merkle.err \/ versionBytes.err
           \/ prevHashBytes.err \/ ntimeBytes.err \/ nbitsBytes.err \/ nonceBytes.err
        THEN [header |-> <<>>, coinbase |-> <<>>, err |-> TRUE]
        ELSE [header |-> versionBytes.bytes \o prevHashBytes.bytes \o merkle.root
                         \o ntimeBytes.bytes \o nbitsBytes.bytes \o nonceBytes.bytes,
              coinbase |-> coinbaseBytes,
              err |-> FALSE]

\* VerifyMerkleRoot(header, coinbase, tmpl)
VerifyMerkleRoot(header, coinbase, tmpl) ==
    IF Len(header) < MerkleRootOffset + HashSize THEN HeaderTooShort
    ELSE IF \E i \in 1..Len(tmpl.TxIDs) : ~HexValid(tmpl.TxIDs[i]) THEN "invalid txid"
    ELSE LET headerMerkleRoot ==
                 SubSeq(header, MerkleRootOffset + 1, MerkleRootOffset + HashSize)
             txids == <<DoubleSHA256(coinbase)>> \o
                      [i \in 1..Len(tmpl.TxIDs) |-> ReverseBytes(HexDecode(tmpl.TxIDs[i]))]
         IN  IF <<headerMerkleRoot>> # ComputeFullMerkleRoot(txids)
             THEN MerkleMismatch ELSE NoError

(***************************************************************************)
(* submission: specification                                               *)
(***************************************************************************)
MaxSubmitTxs == 3

SubmitSeeds == 1..2

\* the size of extranonce1 and of extranonce2 in bytes
SubmitExtranonceSize == 2

HexWord(v) == HexEncode([i \in 1..HeaderFieldSize |-> RawByte(v + i)])

\* what the upstream node returns: txids and previous block hash in display
\* order
UpstreamTemplate(seeds) ==
    [TxIDs |-> [i \in 1..Len(seeds) |-> HexEncode(ReverseBytes(MakeTxHash(seeds[i])))],
     PrevBlockHash |-> HexEncode([i \in 1..PrevHashSize |-> RawByte(40 + i)]),
     Bits |-> HexWord(50)]

\* the coinbase of the builder: two bytes, the extranonce space, one byte
BuiltCoinbase ==
    <<RawByte(1), RawByte(2)>> \o [i \in 1..(2 * SubmitExtranonceSize) |-> RawByte(0)]
        \o <<RawByte(3)>>

ExtranonceValues ==
    {HexEncode([i \in 1..SubmitExtranonceSize |-> RawByte(v + i)]) : v \in {60, 70}}

\* the header byte replaced before verification: none, one before the merkle
\* root, its first and its last, one after it
TamperedBytes ==
    {0, MerkleRootOffset, MerkleRootOffset + 1, MerkleRootOffset + HashSize,
     MerkleRootOffset + HashSize + 1}

SubmitOthers == <<payVars, diffVars, chainVars, merkleVars, syncVars, genVars, boltVars, stratumVars, compactVars, listenerVars, roundVars, gossipVars, shareVars, emitVars, backoffVars, refreshVars, outageVars, notifyVars, wireVars, cancelVars, snapVars, normVars>>

UInit == PIdle /\ DIdle /\ CIdle /\ NodeIdle

\* fetchTemplate up to the job: the template with its TxHashes
FetchedTemplate(seeds) ==
    /\ sbTmpl' = <<[UpstreamTemplate(seeds) EXCEPT !.Bits = @] @@
                   [TxHashes |-> ExtractTxHashes(UpstreamTemplate(seeds).TxIDs)]>>
    /\ sbSeeds' = <<seeds>>
    /\ sbJob' = Nil
    /\ sbHeader' = Nil
    /\ sbCoinbase' = <<>>
    /\ sbTamper' = 0
    /\ sbVerify' = Nil
    /\ UNCHANGED SubmitOthers

\* the job of the template
BuildSubmitJob ==
    /\ sbTmpl # Nil
    /\ sbJob = Nil
    /\ LET job == BuildJobFromTemplate(sbTmpl[1], BuiltCoinbase, 2, 2 * SubmitExtranonceSize)
       IN  /\ ~job.err
           /\ sbJob' = <<job>>
    /\ UNCHANGED <<sbSeeds, sbTmpl, sbHeader, sbCoinbase, sbTamper, sbVerify, SubmitOthers>>

\* a submission: the header is reconstructed and, with the byte at tamper
\* replaced, checked against the template
SubmitHeader(extranonce1, extranonce2, nonce, tamper) ==
    /\ sbJob # Nil
    /\ LET rec == ReconstructHeader(sbJob[1], HexWord(10), extranonce1, extranonce2,
                                    HexWord(20), nonce)
           header == [i \in 1..Len(rec.header) |->
                         IF i = tamper THEN RawByte(255) ELSE rec.header[i]]
       IN  /\ ~rec.err
           /\ tamper <= Len(rec.header)
           /\ sbHeader' = <<header>>
           /\ sbCoinbase' = rec.coinbase
           /\ sbTamper' = tamper
           /\ sbVerify' = <<VerifyMerkleRoot(header, rec.coinbase, sbTmpl[1])>>
    /\ UNCHANGED <<sbSeeds, sbTmpl, sbJob, SubmitOthers>>

UNext ==
    \/ \E n \in 0..MaxSubmitTxs : \E seeds \in [1..n -> SubmitSeeds] : FetchedTemplate(seeds)
    \/ BuildSubmitJob
    \/ \E e1 \in ExtranonceValues, e2 \in ExtranonceValues, tamper \in TamperedBytes :
          SubmitHeader(e1, e2, HexWord(30), tamper)

SpecSubmit == UInit /\ [][UNext]_vars

(***************************************************************************)
(* submission: properties                                                  *)
(***************************************************************************)
\* the full merkle root over the coinbase txid and the template's txids in
\* internal order
ExpectedRoot ==
    FullLoop(<<DoubleSHA256(sbCoinbase)>> \o
             [i \in 1..Len(sbSeeds[1]) |-> MakeTxHash(sbSeeds[1][i])])

HeaderRoot == SubSeq(sbHeader[1], MerkleRootOffset + 1, MerkleRootOffset + HashSize)

\* C26: the header reconstructed from a job of template T carries, at the
\* merkle root's offset, the full merkle root over the coinbase txid and T's
\* txids in internal order and passes VerifyMerkleRoot; VerifyMerkleRoot
\* fails whenever those bytes differ
C26_ReconstructedHeaderVerifies ==
    sbVerify # Nil =>
        /\ sbTamper = 0 => (HeaderRoot = ExpectedRoot /\ sbVerify = <<NoError>>)
        /\ HeaderRoot # ExpectedRoot => sbVerify # <<NoError>>
        /\ HeaderRoot = ExpectedRoot => sbVerify = <<NoError>>

\* a submission on a template of three transactions passed, with the
\* extranonce in the coinbase
C26_Witness ==
    /\ sbVerify = <<NoError>>
    /\ sbTamper = 0
    /\ Len(sbSeeds[1]) = 3
    /\ Len(sbCoinbase) = Len(BuiltCoinbase)
    /\ sbCoinbase # BuiltCoinbase

\* a header with a byte of its merkle root replaced was refused
C26_Refused ==
    /\ sbVerify = <<MerkleMismatch>>
    /\ sbTamper > MerkleRootOffset

(***************************************************************************)
(* internal/types: the hash of a share                                     *)
(***************************************************************************)
\* binary.LittleEndian.PutUint32
PutUint32(v) == [i \in 1..4 |-> RawByte((v \div Pow256(i - 1)) % 256)]

\* ShareHeader.Serialize; the two hashes have HashSize bytes
SerializeHeader(h) ==
    PutUint32(h.Version) \o h.PrevBlockHash \o h.MerkleRoot
        \o PutUint32(h.Timestamp) \o PutUint32(h.Bits) \o PutUint32(h.Nonce)

\* ShareHeader.Hash
HeaderHash(h) == DoubleSHA256(SerializeHeader(h))

\* Share.Hash: the hash returned and the share with its cache
ShareHash(s) ==
    IF s.hash # Nil
    THEN [hash |-> s.hash[1], share |-> s]
    ELSE [hash |-> HeaderHash(s.Header), share |-> [s EXCEPT !.hash = <<HeaderHash(s.Header)>>]]

(***************************************************************************)
(* share hash: specification                                               *)
(***************************************************************************)
MaxNonce == 3

ShareTimestamps == {1700000000, 1700000030, 1700000060}

ShareOthers == <<payVars, diffVars, chainVars, merkleVars, syncVars, genVars, boltVars, stratumVars, compactVars, listenerVars, roundVars, gossipVars, submitVars, emitVars, backoffVars, refreshVars, outageVars, notifyVars, wireVars, cancelVars, snapVars, normVars>>

HInit == PIdle /\ DIdle /\ CIdle /\ NodeIdle

\* a share is made, its hash not yet computed
MakeNewShare(ts) ==
    /\ shShare = Nil
    /\ shShare' = <<[Header |-> [Version |-> 1,
                                 PrevBlockHash |-> [i \in 1..HashSize |-> RawByte(0)],
                                 MerkleRoot |-> [i \in 1..HashSize |-> RawByte(0)],
                                 Timestamp |-> ts,
                                 Bits |-> 486604799,
                                 Nonce |-> 0],
                     hash |-> Nil]>>
    /\ UNCHANGED <<shReturned, ShareOthers>>

\* s.Header.Nonce = nonce
SetNonce(nonce) ==
    /\ shShare # Nil
    /\ shShare' = <<[shShare[1] EXCEPT !.Header.Nonce = nonce]>>
    /\ UNCHANGED <<shReturned, ShareOthers>>

\* s.Header.Timestamp = ts
SetTimestamp(ts) ==
    /\ shShare # Nil
    /\ shShare' = <<[shShare[1] EXCEPT !.Header.Timestamp = ts]>>
    /\ UNCHANGED <<shReturned, ShareOthers>>

\* s.Hash()
CallHash ==
    /\ shShare # Nil
    /\ shShare' = <<ShareHash(shShare[1]).share>>
    /\ shReturned' = <<ShareHash(shShare[1]).hash>>
    /\ UNCHANGED ShareOthers

HNext ==
    \/ \E ts \in ShareTimestamps : MakeNewShare(ts)
    \/ \E nonce \in 0..MaxNonce : SetNonce(nonce)
    \/ \E ts \in ShareTimestamps : SetTimestamp(ts)
    \/ CallHash

SpecShareHash == HInit /\ [][HNext]_vars

(***************************************************************************)
(* share hash: properties                                                  *)
(***************************************************************************)
\* C27: whatever was done to a share, header changes after a first call of
\* Hash included, Hash returns the double SHA-256 of the header as it is
C27_HashIsOfCurrentHeader ==
    shShare # Nil => ShareHash(shShare[1]).hash = HeaderHash(shShare[1].Header)

(***************************************************************************)
(* Difficulty: the shares NextTarget reads, on windows with changed tails  *)
(***************************************************************************)
\* the shares put in the place of an old share of a long window
TailTargets == {Nil, <<4660>>, <<19088743>>, <<MaxShareTarget>>}

\* NextTarget is called on the window with one of its two oldest shares
\* replaced
DReplace(back, st, ts) ==
    /\ Len(dwindow) > MaxWin
    /\ dwindow' = [dwindow EXCEPT ![Len(dwindow) - back] = DShare(st, ts)]
    /\ dresult' = NextTarget(dwindow')
    /\ UNCHANGED <<payVars, chainVars, nodeVars>>

TrimNext ==
    \/ \E st \in DTargets, ts \in DTimes : DPush(st, ts)
    \/ \E w \in UniformWindows : DUniform(w)
    \/ \E back \in {0, 1}, st \in TailTargets, ts \in DTimes : DReplace(back, st, ts)

SpecTrim == DInit /\ [][TrimNext]_vars

\* the shares before the trim point: of the first DifficultyAdjustmentWindow
\* shares, those before the first one past the newest whose target is
\* missing, zero or more than fourfold away from the newest share's
KeptShares(window) ==
    LET n == Min(Len(window), DifficultyAdjustmentWindow)
        out == {i \in 2..n : OutOfRegime(window[i].ShareTarget, window[1].ShareTarget[1])}
    IN  SubSeq(window, 1, IF out = {} THEN n ELSE (CHOOSE i \in out : \A j \in out : i <= j) - 1)

\* C28: the result of NextTarget is that of the shares before the trim
\* point alone: the shares from the trim point on, and those from index
\* DifficultyAdjustmentWindow on, have no part in it
C28_OnlyKeptSharesCount ==
    DHasRegime =>
        dresult = IF Len(KeptShares(dwindow)) < 2
                  THEN Normalize(DNewestTarget[1])
                  ELSE NextTarget(KeptShares(dwindow))

\* a window of more than DifficultyAdjustmentWindow shares whose share at
\* the last index read is out of regime and was cut off with all behind it
C28_Witness ==
    /\ Len(dwindow) > DifficultyAdjustmentWindow
    /\ DHasRegime
    /\ Len(KeptShares(dwindow)) = DifficultyAdjustmentWindow - 1
    /\ dwindow[Len(dwindow)].Timestamp # DBase
    /\ dresult # Normalize(DNewestTarget[1])

(***************************************************************************)
(* Job channel: specification.  The poller runs fetchTemplate while other  *)
(* goroutines call GenerateJob; the poller's own call of GenerateJob takes *)
(* its sequence number in one step and stores and sends in a later one.    *)
(***************************************************************************)
\* the jobs are followed until this many are numbered
MaxEmitSeq == 5

\* the poller among the callers of GenerateJob
Poller == 0

EmitOthers == <<payVars, diffVars, chainVars, merkleVars, syncVars, boltVars, stratumVars, compactVars, listenerVars, roundVars, gossipVars, submitVars, shareVars, backoffVars, refreshVars, outageVars, notifyVars, wireVars, cancelVars, snapVars, normVars>>

EmitInit == PIdle /\ DIdle /\ CIdle /\ NodeIdle

PollerCalls == {call \in genCalls : call.caller = Poller}

\* fetchTemplate from GetBlockTemplate to jobCounter.Add(1) in GenerateJob
PollFetch ==
    LET tmpl == [PreviousBlockHash |-> bestBlock]
        newBlock == IF currentTemplate = Nil THEN TRUE
                    ELSE tmpl.PreviousBlockHash # currentTemplate[1].PreviousBlockHash
        needsRefresh == ~newBlock /\ SinceLastJob >= JobRefreshInterval
    IN  /\ PollerCalls = {}
        /\ currentTemplate' = <<tmpl>>
        /\ LastJobTimeAges
        /\ IF newBlock \/ needsRefresh
           THEN /\ jobCounter < MaxEmitSeq
                /\ jobCounter' = NextSeq(jobCounter)
                /\ genCalls' = genCalls \cup
                      {[caller |-> Poller, seq |-> jobCounter', tmpl |-> tmpl,
                        clean |-> newBlock]}
           ELSE UNCHANGED <<jobCounter, genCalls>>
        /\ UNCHANGED <<bestBlock, jobs, stored, jobCh, cleanDelivered, delivered, EmitOthers>>

\* fetchTemplate from the return of BuildJobFromTemplate to its own return
PollSend(buildOk) ==
    /\ \E call \in PollerCalls :
          LET job == [BuildJob(call.seq, call.tmpl) EXCEPT !.CleanJobs = call.clean]
          IN  /\ genCalls' = genCalls \ {call}
              /\ IF buildOk
                 THEN /\ jobs' = StoreJob(jobs, job)
                      /\ stored' = stored \cup {call.seq}
                      /\ IF Len(jobCh) < jobChSize
                         THEN /\ jobCh' = Append(jobCh, job)
                              /\ lastJobTime' = <<0>>
                              /\ cleanDelivered' =
                                    IF call.clean
                                    THEN cleanDelivered \cup {call.tmpl.PreviousBlockHash}
                                    ELSE cleanDelivered
                         ELSE UNCHANGED <<jobCh, lastJobTime, cleanDelivered>>
                 ELSE UNCHANGED <<jobs, stored, jobCh, lastJobTime, cleanDelivered>>
    /\ UNCHANGED <<bestBlock, currentTemplate, jobCounter, delivered, EmitOthers>>

\* the orchestrator receives the oldest job of jobCh
DeliverJob ==
    /\ jobCh # <<>>
    /\ delivered' = Append(delivered, Head(jobCh))
    /\ jobCh' = Tail(jobCh)
    /\ UNCHANGED <<bestBlock, currentTemplate, jobCounter, jobs, genCalls,
                   stored, lastJobTime, cleanDelivered, EmitOthers>>

EmitNext ==
    \/ NewBlock
    \/ PollFetch
    \/ \E buildOk \in BOOLEAN : PollSend(buildOk)
    \/ DeliverJob
    \/ \E c \in Callers : jobCounter < MaxEmitSeq /\ GenTakeSeq(c)
    \/ \E c \in Callers : GenStore(c)

SpecEmit == EmitInit /\ [][EmitNext]_vars

(***************************************************************************)
(* Job channel: properties                                                 *)
(***************************************************************************)
\* the jobs sent on the job channel, oldest first
Emitted == delivered \o jobCh

maxBackoff == 60

\* a backoff that does not grow
BackoffDuration_Flat(failures) == PollInterval

\* the loop of backoffDuration
RECURSIVE BackoffLoop(_, _, _)
BackoffLoop(d, i, failures) ==
    IF i < failures
    THEN IF d * 2 > maxBackoff THEN maxBackoff ELSE BackoffLoop(d * 2, i + 1, failures)
    ELSE d

\* backoffDuration(failures), in seconds
BackoffDuration(failures) ==
    IF failures <= 0 THEN PollInterval ELSE BackoffLoop(PollInterval, 1, failures)

(***************************************************************************)
(* poll loop backoff: specification                                        *)
(***************************************************************************)
MaxPollClock == 300

MaxFailures == 7

\* the seconds a failing RPC takes before it returns its error
RpcDurations == {0, 2, 4}

BackoffOthers == <<payVars, diffVars, chainVars, merkleVars, syncVars, genVars, boltVars, stratumVars, compactVars, listenerVars, roundVars, gossipVars, submitVars, shareVars, emitVars, refreshVars, outageVars, notifyVars, wireVars, cancelVars, snapVars, normVars>>

FInit == PIdle /\ DIdle /\ CIdle /\ NodeIdle

\* fetchTemplate at the time at, as the loop sees it
Fetch(at, ok, dur) ==
    /\ poIssued' = <<[at |-> at, failures |-> consecutiveFailures, last |-> lastFailureTime]>>
    /\ IF ok
       THEN /\ consecutiveFailures' = 0
            /\ poOutcome' = "ok"
            /\ UNCHANGED lastFailureTime
       ELSE /\ consecutiveFailures < MaxFailures
            /\ consecutiveFailures' = consecutiveFailures + 1
            /\ lastFailureTime' = <<at + dur>>
            /\ poOutcome' = "failed"

\* pollLoop up to its loop: the initial fetch
StartPollLoop(ok, dur) ==
    /\ poClock = Nil
    /\ poClock' = <<0>>
    /\ Fetch(0, ok, dur)
    /\ UNCHANGED BackoffOthers

\* one iteration of the loop, at the next tick of the ticker
PollTick(ok, dur) ==
    /\ poClock # Nil
    /\ poClock[1] + PollInterval <= MaxPollClock
    /\ poClock' = <<poClock[1] + PollInterval>>
    /\ IF consecutiveFailures > 0
          /\ poClock'[1] - lastFailureTime[1] < BackoffDuration(consecutiveFailures)
       THEN /\ ok /\ dur = 0
            /\ poOutcome' = "skipped"
            /\ UNCHANGED <<consecutiveFailures, lastFailureTime, poIssued>>
       ELSE Fetch(poClock'[1], ok, dur)
    /\ UNCHANGED BackoffOthers

BackoffNext ==
    \/ \E ok \in BOOLEAN, dur \in RpcDurations : StartPollLoop(ok, dur)
    \/ \E ok \in BOOLEAN, dur \in RpcDurations : PollTick(ok, dur)

SpecBackoff == FInit /\ [][BackoffNext]_vars

(***************************************************************************)
(* poll loop backoff: properties                                           *)
(***************************************************************************)
\* C30: an RPC issued after k >= 1 consecutive failures comes at least
\* min(5 * 2^(k-1), 60) seconds after the latest failure, the backoff is
\* never above 60 seconds, and a success sets the count to 0
C30_BackoffBeforeRetry ==
    /\ poIssued # Nil /\ poIssued[1].failures >= 1 =>
          poIssued[1].at - poIssued[1].last[1] >=
              Min(5 * 2 ^ (poIssued[1].failures - 1), 60)
    /\ BackoffDuration(consecutiveFailures) <= 60
    /\ poOutcome = "ok" => consecutiveFailures = 0

\* the fifth failure in a row was followed by ticks without an RPC, and
\* then by an RPC 60 seconds or more after it that succeeded
C30_Witness ==
    /\ poIssued # Nil
    /\ poIssued[1].failures = 5
    /\ poIssued[1].at - poIssued[1].last[1] >= 60
    /\ poIssued[1].at - poIssued[1].last[1] < 65
    /\ poOutcome = "ok"
    /\ consecutiveFailures = 0

(***************************************************************************)
(* Template poller: the refresh job.  The polls of SpecPoll, with the time *)
(* since the last clean job and the doings of the last poll recorded.      *)
(***************************************************************************)
RefreshOthers == <<payVars, diffVars, chainVars, merkleVars, syncVars, boltVars, stratumVars, compactVars, listenerVars, roundVars, gossipVars, submitVars, shareVars, emitVars, backoffVars, notifyVars, wireVars, cancelVars, snapVars, normVars>>

RefreshInit == PIdle /\ DIdle /\ CIdle /\ NodeIdle

\* the time since the last clean job, one poll later
SinceCleanAges ==
    IF rfSinceClean = Nil THEN Nil
    ELSE <<Min(rfSinceClean[1] + PollInterval, JobRefreshInterval)>>

\* a fetch that stores what GetBlockTemplate returned before it looks at
\* the error
TemplateAfterFetch_StoresNil(held, fetched) == fetched

\* g.currentTemplate after fetchTemplate: the template fetched, the one held
\* before when GetBlockTemplate returned an error
TemplateAfterFetch(held, fetched) == IF fetched = Nil THEN held ELSE fetched

\* fetchTemplate when GetBlockTemplate returns an error
RefreshFetchFails ==
    /\ currentTemplate' = TemplateAfterFetch(currentTemplate, Nil)
    /\ LastJobTimeAges
    /\ rfSinceClean' = SinceCleanAges
    /\ rfFailed' = TRUE
    /\ UNCHANGED <<bestBlock, jobCounter, jobs, genCalls,
                   stored, jobCh, cleanDelivered, rfPoll, RefreshOthers>>

\* fetchTemplate when GetBlockTemplate returns a template; buildOk tells
\* whether BuildJobFromTemplate succeeds
RefreshPoll(buildOk) ==
    LET tmpl == [PreviousBlockHash |-> bestBlock]
        newBlock == IF currentTemplate = Nil THEN TRUE
                    ELSE tmpl.PreviousBlockHash # currentTemplate[1].PreviousBlockHash
        needsRefresh == ~newBlock /\ SinceLastJob >= JobRefreshInterval
        seq == NextSeq(jobCounter)
        job == [BuildJob(seq, tmpl) EXCEPT !.CleanJobs = newBlock]
        builds == (newBlock \/ needsRefresh) /\ buildOk
        sends == builds /\ Len(jobCh) < jobChSize
        sinceClean == IF rfSinceClean = Nil THEN JobRefreshInterval
                      ELSE SinceCleanAges[1]
    IN  /\ (newBlock \/ needsRefresh) => jobCounter < MaxPolledJobs
        /\ (newBlock \/ needsRefresh) \/ buildOk
        /\ currentTemplate' = TemplateAfterFetch(currentTemplate, <<tmpl>>)
        /\ rfFailed' = FALSE
        /\ jobCounter' = IF newBlock \/ needsRefresh THEN seq ELSE jobCounter
        /\ jobs' = IF builds THEN StoreJob(jobs, job) ELSE jobs
        /\ stored' = IF builds THEN stored \cup {seq} ELSE stored
        /\ jobCh' = IF sends THEN Append(jobCh, job) ELSE jobCh
        /\ IF sends THEN lastJobTime' = <<0>> ELSE LastJobTimeAges
        /\ cleanDelivered' = IF sends /\ newBlock
                             THEN cleanDelivered \cup {tmpl.PreviousBlockHash}
                             ELSE cleanDelivered
        /\ rfSinceClean' = IF sends /\ newBlock THEN <<0>> ELSE SinceCleanAges
        /\ rfPoll' = <<[tmpl |-> tmpl,
                        newBlock |-> newBlock,
                        sinceClean |-> sinceClean,
                        built |-> (newBlock \/ needsRefresh) => buildOk,
                        room |-> Len(jobCh) < jobChSize,
                        sent |-> IF sends THEN <<job>> ELSE Nil]>>
        /\ UNCHANGED <<bestBlock, genCalls, RefreshOthers>>

RefreshNext ==
    \/ NewBlock
    \/ RefreshFetchFails
    \/ \E buildOk \in BOOLEAN : RefreshPoll(buildOk)
    \/ ReceiveJob
    \/ \E c \in Callers : jobCounter < MaxPolledJobs /\ GenTakeSeq(c)
    \/ \E c \in Callers : GenStore(c)

SpecRefresh == RefreshInit /\ [][RefreshNext]_vars

\* C31: a successful poll that finds the previous block hash unchanged and
\* no clean job sent during the 30 seconds before it emits a job with
\* clean_jobs = false, and no job with clean_jobs = false is emitted at a
\* poll that finds the previous block hash changed
C31_RefreshAfterThirtySeconds ==
    rfPoll # Nil =>
        /\ (~rfPoll[1].newBlock /\ rfPoll[1].sinceClean >= JobRefreshInterval) =>
              (rfPoll[1].sent # Nil /\ ~rfPoll[1].sent[1].CleanJobs)
        /\ (rfPoll[1].newBlock /\ rfPoll[1].sent # Nil) => rfPoll[1].sent[1].CleanJobs

\* the poll five seconds after a refresh job: no clean job for 30 seconds,
\* the job could be built and the channel had room, and nothing was sent
RefreshNotRepeated ==
    /\ rfPoll # Nil
    /\ ~rfPoll[1].newBlock
    /\ rfPoll[1].sinceClean >= JobRefreshInterval
    /\ rfPoll[1].built
    /\ rfPoll[1].room
    /\ rfPoll[1].sent = Nil

\* what the generator holds: template, job cache, job counter, job channel
GeneratorState == <<currentTemplate, jobs, jobCounter, stored, jobCh>>

\* the template of the last successful fetch, Nil before it
LastFetched == IF rfPoll = Nil THEN Nil ELSE <<rfPoll[1].tmpl>>

\* this step is a call of GenerateJob that reads the template
TakesTemplate == \E call \in genCalls' : call \notin genCalls

\* C32: a failed get_block_template call leaves the held template, the job
\* cache and the job counter as they were and emits no job, and
\* CurrentTemplate and GenerateJob go on with the last template fetched
C32_FailedFetchChangesNothing ==
    /\ [](currentTemplate = LastFetched)
    /\ [][RefreshFetchFails => UNCHANGED GeneratorState]_vars
    /\ [][TakesTemplate =>
            \A call \in genCalls' \ genCalls : <<call.tmpl>> = LastFetched]_vars

\* the last poll failed after bitcoind had moved to a new block, and a call
\* of GenerateJob since took the template of the block before
C32_Witness ==
    /\ rfFailed
    /\ currentTemplate # Nil
    /\ currentTemplate[1].PreviousBlockHash # bestBlock
    /\ \E call \in genCalls : call.seq = jobCounter /\ <<call.tmpl>> = currentTemplate
    /\ jobCounter > 1

(***************************************************************************)
(* gossip read loop: the size of the limiter map                           *)
(***************************************************************************)
LimiterPeers == DOMAIN gsLimiters

\* this step gives a limiter to a source that had none while the map was
\* full
LimiterOverflow ==
    /\ Cardinality(LimiterPeers) = maxPeerLimiters
    /\ \E q \in LimiterPeers' : q \notin LimiterPeers

\* C33: the limiter map never holds more than its cap (500, here
\* maxPeerLimiters), and a limiter made for an unknown source while the map
\* is full takes the place of one existing entry
C33_LimiterMapCapped ==
    /\ [](Cardinality(LimiterPeers) <= maxPeerLimiters)
    /\ [][LimiterOverflow =>
            /\ Cardinality(LimiterPeers') = maxPeerLimiters
            /\ Cardinality(LimiterPeers \cap LimiterPeers') = maxPeerLimiters - 1]_vars

\* the map is full and a source that got a message through has no limiter
\* any more
C33_Witness ==
    /\ gsPassed # Nil
    /\ Cardinality(LimiterPeers) = maxPeerLimiters
    /\ \E q \in Sources : gsPassed[q] > 0 /\ q \notin LimiterPeers

(***************************************************************************)
(* internal/p2p: the connection notifier                                   *)
(***************************************************************************)
\* make(chan peer.ID, 16), scaled
peerConnectedSize == 3

\* a send that does not look at the room left
NotifySend_Unchecked(queue, peerID) == Append(queue, peerID)

\* select { case pn.peerConnected <- conn.RemotePeer(): default: }
NotifySend(queue, peerID) ==
    IF Len(queue) < peerConnectedSize THEN Append(queue, peerID) ELSE queue

(***************************************************************************)
(* connection notifier: specification                                      *)
(***************************************************************************)
NumRemotePeers == 3

MaxEvents == 5

RemotePeers == 1..NumRemotePeers

NotifyOthers == <<payVars, diffVars, chainVars, merkleVars, syncVars, genVars, boltVars, stratumVars, compactVars, listenerVars, roundVars, gossipVars, submitVars, shareVars, emitVars, backoffVars, refreshVars, outageVars, wireVars, cancelVars, snapVars, normVars>>

NotifyInit == PIdle /\ DIdle /\ CIdle /\ NodeIdle

\* peerNotifiee.Connected
Connected(peerID) ==
    /\ pnEvents < MaxEvents
    /\ peerConnected' = NotifySend(peerConnected, peerID)
    /\ pnDropped' = (pnDropped \/ peerConnected' = peerConnected)
    /\ pnEvents' = pnEvents + 1
    /\ UNCHANGED NotifyOthers

\* the node receives a peer id and starts a sync with it
TakePeer ==
    /\ peerConnected # <<>>
    /\ peerConnected' = Tail(peerConnected)
    /\ UNCHANGED <<pnEvents, pnDropped, NotifyOthers>>

NotifyNext ==
    \/ \E peerID \in RemotePeers : Connected(peerID)
    \/ TakePeer

SpecNotify == NotifyInit /\ [][NotifyNext]_vars

\* C34: Connected returns without waiting whatever the channel holds, the
\* channel never holds more than its capacity (16, here peerConnectedSize),
\* and an event arriving at a full channel is dropped with the pending peer
\* ids left as they were
C34_NotifierNeverBlocks ==
    /\ [](Len(peerConnected) <= peerConnectedSize)
    /\ [](pnEvents < MaxEvents => \A peerID \in RemotePeers : ENABLED Connected(peerID))
    /\ [][(pnEvents' # pnEvents /\ Len(peerConnected) = peerConnectedSize) =>
            peerConnected' = peerConnected]_vars

\* the channel is full and an event was dropped
C34_Witness ==
    /\ pnDropped
    /\ Len(peerConnected) = peerConnectedSize
    /\ pnEvents > peerConnectedSize

(***************************************************************************)
(* internal/p2p: sync messages on the wire                                 *)
(*                                                                         *)
(* Messages are CBOR maps with integer keys.  The bytes modelled are the   *)
(* ones these messages use: unsigned integers (0..23 in one byte, 24 and   *)
(* one more byte), byte strings (64 + length), arrays (128 + count), maps  *)
(* (160 + count), false, true and null (244, 245, 246).                    *)
(***************************************************************************)
MsgTypeShare == 1

MsgTypeLocatorReq == 5

MsgTypeLocatorResp == 6

\* a hash on the wire, scaled from 32 bytes
WireHashSize == 1

RECURSIVE CborItemEnd(_, _), CborItemsEnd(_, _, _)
\* the position after the data item that starts at i, 0 when the item is
\* malformed or runs past the end of the data
CborItemEnd(data, i) ==
    IF i > Len(data) THEN 0
    ELSE LET b == data[i]
         IN  CASE b < 24 -> i + 1
               [] b = 24 -> IF i + 1 <= Len(data) THEN i + 2 ELSE 0
               [] b \in 64..87 -> IF i + (b - 64) <= Len(data) THEN i + 1 + (b - 64) ELSE 0
               [] b \in 128..151 -> CborItemsEnd(data, i + 1, b - 128)
               [] b \in 160..183 -> CborItemsEnd(data, i + 1, 2 * (b - 160))
               [] b \in {244, 245, 246} -> i + 1
               [] OTHER -> 0

CborItemsEnd(data, i, n) ==
    IF n = 0 THEN i
    ELSE LET e == CborItemEnd(data, i)
         IN  IF e = 0 THEN 0 ELSE CborItemsEnd(data, e, n - 1)

\* cbor.Unmarshal's check before it decodes: empty data is io.EOF, and a
\* strict decoder refuses bytes after the first item
CborWellFormed(data, strict) ==
    /\ data # <<>>
    /\ CborItemEnd(data, 1) # 0
    /\ strict => CborItemEnd(data, 1) = Len(data) + 1

RECURSIVE CborItemStarts(_, _, _)
\* the positions at which n consecutive well-formed items start
CborItemStarts(data, i, n) ==
    IF n = 0 THEN <<>>
    ELSE <<i>> \o CborItemStarts(data, CborItemEnd(data, i), n - 1)

\* the position of the value a map at position 1 holds under the key, 0
\* when the map has no such key
CborField(data, key) ==
    LET starts == CborItemStarts(data, 2, 2 * (data[1] - 160))
        hits == {k \in 1..(Len(starts) \div 2) : data[starts[2 * k - 1]] = key}
    IN  IF hits = {} THEN 0 ELSE starts[2 * (CHOOSE k \in hits : \A j \in hits : k <= j)]

\* an unsigned integer field: absent and null leave the zero value
CborUint(data, v) ==
    IF v = 0 \/ data[v] = 246 THEN [err |-> FALSE, val |-> 0]
    ELSE IF data[v] < 24 THEN [err |-> FALSE, val |-> data[v]]
    ELSE IF data[v] = 24 THEN [err |-> FALSE, val |-> data[v + 1]]
    ELSE [err |-> TRUE, val |-> 0]

\* a boolean field
CborBool(data, v) ==
    IF v = 0 \/ data[v] = 246 THEN [err |-> FALSE, val |-> FALSE]
    ELSE IF data[v] \in {244, 245} THEN [err |-> FALSE, val |-> data[v] = 245]
    ELSE [err |-> TRUE, val |-> FALSE]

\* the items of an array field, as the decoder of one item reads them
CborArray(data, v, Item(_, _)) ==
    IF v = 0 \/ data[v] = 246 THEN [err |-> FALSE, val |-> <<>>]
    ELSE IF data[v] \in 128..151
    THEN LET starts == CborItemStarts(data, v + 1, data[v] - 128)
             items == [k \in 1..Len(starts) |-> Item(data, starts[k])]
         IN  [err |-> \E k \in 1..Len(items) : items[k].err,
              val |-> [k \in 1..Len(items) |-> items[k].val]]
    ELSE [err |-> TRUE, val |-> <<>>]

\* a [32]byte: the bytes of a byte string, cut or zero-filled to the size
CborHash(data, v) ==
    IF data[v] \in 64..87
    THEN [err |-> FALSE,
          val |-> [k \in 1..WireHashSize |-> IF k <= data[v] - 64 THEN data[v + k] ELSE 0]]
    ELSE [err |-> TRUE, val |-> [k \in 1..WireHashSize |-> 0]]

\* a ShareMsg, of which the message type and the nonce are kept
CborShareMsg(data, v) ==
    IF data[v] \in 160..183
    THEN LET item == SubSeq(data, v, CborItemEnd(data, v) - 1)
             type == CborUint(item, CborField(item, 1))
             nonce == CborUint(item, CborField(item, 7))
         IN  [err |-> type.err \/ nonce.err,
              val |-> [Type |-> type.val, Nonce |-> nonce.val]]
    ELSE [err |-> TRUE, val |-> [Type |-> 0, Nonce |-> 0]]

\* an unsigned integer below 256 as cbor.Marshal writes it
EncodeUint(n) == IF n < 24 THEN <<n>> ELSE <<24, n>>

RECURSIVE Concat(_)
Concat(seqs) == IF seqs = <<>> THEN <<>> ELSE Head(seqs) \o Concat(Tail(seqs))

\* Encode of a ShareLocatorReq; a nil slice is written as null
EncodeShareLocatorReq(req) ==
    <<163, 1>> \o EncodeUint(req.Type)
    \o <<2>> \o (IF req.Locators = Nil THEN <<246>>
                 ELSE <<128 + Len(req.Locators)>>
                      \o Concat([k \in 1..Len(req.Locators) |-> <<64 + WireHashSize>> \o req.Locators[k]]))
    \o <<3>> \o EncodeUint(req.MaxCount)

\* Encode of a ShareLocatorResp
EncodeShareLocatorResp(resp) ==
    <<163, 1>> \o EncodeUint(resp.Type)
    \o <<2>> \o (IF resp.Shares = Nil THEN <<246>>
                 ELSE <<128 + Len(resp.Shares)>>
                      \o Concat([k \in 1..Len(resp.Shares) |->
                                   <<162, 1>> \o EncodeUint(resp.Shares[k].Type)
                                   \o <<7>> \o EncodeUint(resp.Shares[k].Nonce)]))
    \o <<3, IF resp.More THEN 245 ELSE 244>>

\* DecodeShareLocatorReq: err, or the request
DecodeShareLocatorReq(data, strict) ==
    IF ~CborWellFormed(data, strict) \/ data[1] \notin 160..183
    THEN [err |-> TRUE, msg |-> Nil]
    ELSE LET type == CborUint(data, CborField(data, 1))
             locators == CborArray(data, CborField(data, 2), CborHash)
             maxCount == CborUint(data, CborField(data, 3))
         IN  IF type.err \/ locators.err \/ maxCount.err
             THEN [err |-> TRUE, msg |-> Nil]
             ELSE [err |-> FALSE,
                   msg |-> [Type |-> type.val, Locators |-> locators.val, MaxCount |-> maxCount.val]]

\* cbor.Unmarshal into a ShareLocatorResp
UnmarshalShareLocatorResp(data, strict) ==
    IF ~CborWellFormed(data, strict) \/ data[1] \notin 160..183
    THEN [err |-> TRUE, msg |-> Nil]
    ELSE LET type == CborUint(data, CborField(data, 1))
             shares == CborArray(data, CborField(data, 2), CborShareMsg)
             more == CborBool(data, CborField(data, 3))
         IN  IF type.err \/ shares.err \/ more.err
             THEN [err |-> TRUE, msg |-> Nil]
             ELSE [err |-> FALSE,
                   msg |-> [Type |-> type.val, Shares |-> shares.val, More |-> more.val]]

\* a decoder that takes no bytes at all for a response without shares
DecodeShareLocatorResp_EmptyIsNoShares(data, strict) ==
    IF data = <<>>
    THEN [err |-> FALSE, msg |-> [Type |-> 0, Shares |-> <<>>, More |-> FALSE]]
    ELSE UnmarshalShareLocatorResp(data, strict)

\* DecodeShareLocatorResp: err, or the response
DecodeShareLocatorResp(data, strict) == UnmarshalShareLocatorResp(data, strict)

(***************************************************************************)
(* sync wire: specification                                                *)
(***************************************************************************)
\* a hash of the wire's size
WireHash(b) == [k \in 1..WireHashSize |-> b]

\* requests a client of this code sends
WireRequests ==
    {[Type |-> MsgTypeLocatorReq, Locators |-> locators, MaxCount |-> maxCount] :
        locators \in {Nil, <<WireHash(11)>>, <<WireHash(11), WireHash(99)>>},
        maxCount \in {3, maxSyncBatchSize + 1}}

\* a byte no data item starts with, and bytes of the wrong type
WireNoise == {255, 245, 7}

\* what arrives at the server: an encoded request, whole, cut short, with
\* one byte replaced or with one byte added
WireData ==
    UNION {LET enc == EncodeShareLocatorReq(req)
           IN  {SubSeq(enc, 1, n) : n \in 0..Len(enc)}
               \cup {[enc EXCEPT ![k] = b] : k \in 1..Len(enc), b \in WireNoise}
               \cup {enc \o <<b>> : b \in WireNoise}
           : req \in WireRequests}

\* what the handler answers: nothing, no share, or one share and more to come
HandlerResponses ==
    {Nil,
     [Type |-> MsgTypeLocatorResp, Shares |-> Nil, More |-> FALSE],
     [Type |-> MsgTypeLocatorResp, Shares |-> <<[Type |-> MsgTypeShare, Nonce |-> 3]>>, More |-> TRUE]}

WireOthers == <<payVars, diffVars, chainVars, merkleVars, syncVars, genVars, boltVars, stratumVars, compactVars, listenerVars, roundVars, gossipVars, submitVars, shareVars, emitVars, backoffVars, refreshVars, outageVars, notifyVars, cancelVars, snapVars, normVars>>

WireInit == PIdle /\ DIdle /\ CIdle /\ NodeIdle

\* a peer opens a sync stream and its bytes arrive; the read may fail
StreamOpens(data, readErr, strict) ==
    /\ wrSrvPc = "idle"
    /\ wrData' = <<data>>
    /\ wrReadErr' = readErr
    /\ wrStrict' = strict
    /\ wrSrvPc' = "open"
    /\ UNCHANGED <<wrHandled, wrWritten, wrResult, WireOthers>>

\* Syncer.handleStream, from the read of the request to the deferred
\* stream.Close()
HandleStreamBytes(handlerResp) ==
    /\ wrSrvPc = "open"
    /\ LET req == DecodeShareLocatorReq(wrData[1], wrStrict)
       IN  IF wrReadErr \/ req.err
           THEN UNCHANGED <<wrHandled, wrWritten>>
           ELSE LET seen == ClampRequest(req.msg)
                    resp == IF handlerResp = Nil
                            THEN [Type |-> MsgTypeLocatorResp, Shares |-> Nil, More |-> FALSE]
                            ELSE handlerResp
                IN  /\ wrHandled' = Append(wrHandled, seen)
                    /\ wrWritten' = wrWritten \o EncodeShareLocatorResp(resp)
    /\ wrSrvPc' = "closed"
    /\ UNCHANGED <<wrData, wrReadErr, wrStrict, wrResult, WireOthers>>

\* Syncer.RequestLocator, from the return of its read of the response: the
\* read gives the bytes the server wrote before it closed, or fails
RequestLocatorReturns(readErr) ==
    /\ wrSrvPc = "closed"
    /\ wrResult = Nil
    /\ wrResult' = IF readErr THEN <<[err |-> TRUE, msg |-> Nil]>>
                   ELSE <<DecodeShareLocatorResp(wrWritten, wrStrict)>>
    /\ UNCHANGED <<wrData, wrReadErr, wrStrict, wrSrvPc, wrHandled, wrWritten, WireOthers>>

WireNext ==
    \/ \E data \in WireData, readErr, strict \in BOOLEAN : StreamOpens(data, readErr, strict)
    \/ \E handlerResp \in HandlerResponses : HandleStreamBytes(handlerResp)
    \/ \E readErr \in BOOLEAN : RequestLocatorReturns(readErr)

SpecWire == WireInit /\ [][WireNext]_vars

(***************************************************************************)
(* sync wire: properties                                                   *)
(***************************************************************************)
\* the request could not be read or is no request
RequestUnreadable ==
    /\ wrData # Nil
    /\ wrReadErr \/ DecodeShareLocatorReq(wrData[1], wrStrict).err

\* C35: when the request cannot be read or decoded, handleStream calls no
\* handler, writes no byte and closes the stream, and RequestLocator on the
\* other end returns an error, never a response without shares
C35_UnreadableRequestGivesClientError ==
    /\ [](RequestUnreadable =>
            /\ wrHandled = <<>>
            /\ wrWritten = <<>>
            /\ wrResult # Nil => wrResult[1].err)
    /\ [][wrSrvPc = "open" /\ wrSrvPc' # "open" => wrSrvPc' = "closed"]_vars

\* both ends returned on a request cut short that was read without error
C35_Witness ==
    /\ RequestUnreadable
    /\ ~wrReadErr
    /\ wrData[1] # <<>>
    /\ wrSrvPc = "closed"
    /\ wrResult # Nil

(***************************************************************************)
(* shutdown: pollLoop and readLoop under the root context                  *)
(*                                                                         *)
(* A select with several ready cases takes any of them: pollLoop's select  *)
(* on ctx.Done() and ticker.C, and the select inside sub.Next(ctx) on the  *)
(* subscription's channel and ctx.Done().                                  *)
(***************************************************************************)
MaxRpcCalls == 4

MaxPending == 3

CancelOthers == <<payVars, diffVars, chainVars, merkleVars, syncVars, genVars, boltVars, stratumVars, compactVars, listenerVars, roundVars, gossipVars, submitVars, shareVars, emitVars, backoffVars, refreshVars, outageVars, notifyVars, wireVars, snapVars, normVars>>

CancelInit == PIdle /\ DIdle /\ CIdle /\ NodeIdle

\* the cases of pollLoop's select that are ready
PollSelectReady(cancelled, tick) ==
    (IF cancelled THEN {"done"} ELSE {}) \cup (IF tick THEN {"tick"} ELSE {})

\* the outcomes of sub.Next(ctx) that are ready
SubNextReady(cancelled, pending) ==
    (IF cancelled THEN {"err"} ELSE {}) \cup (IF pending > 0 THEN {"msg"} ELSE {})

\* the node starts: pollLoop's initial fetch, and readLoop
StartLoops(rpcOk) ==
    /\ cxPollPc = "idle"
    /\ cxPollPc' = "select"
    /\ cxRpcCalls' = cxRpcCalls + 1
    /\ cxFailures' = IF rpcOk THEN 0 ELSE 1
    /\ cxReadPc' = "next"
    /\ UNCHANGED <<cxCancelled, cxTick, cxPending, cxEnqueued, CancelOthers>>

\* the root context is cancelled
CancelRoot ==
    /\ cxPollPc # "idle"
    /\ ~cxCancelled
    /\ cxCancelled' = TRUE
    /\ UNCHANGED <<cxPollPc, cxTick, cxFailures, cxRpcCalls, cxReadPc, cxPending, cxEnqueued, CancelOthers>>

\* PollInterval passes: the ticker puts a tick in its channel of one.  No
\* tick is counted after the cancellation: the loop reacts to it at once
TickerFires ==
    /\ cxPollPc = "select"
    /\ ~cxCancelled
    /\ cxRpcCalls < MaxRpcCalls
    /\ ~cxTick
    /\ cxTick' = TRUE
    /\ UNCHANGED <<cxCancelled, cxPollPc, cxFailures, cxRpcCalls, cxReadPc, cxPending, cxEnqueued, CancelOthers>>

\* one turn of pollLoop's for: the select takes ctx.Done() and the loop
\* returns, or it takes the tick and the loop waits out its backoff or
\* calls fetchTemplate
PollLoopTurn(case, backingOff, rpcOk) ==
    /\ cxPollPc = "select"
    /\ case \in PollSelectReady(cxCancelled, cxTick)
    /\ IF case = "done"
       THEN /\ cxPollPc' = "returned"
            /\ UNCHANGED <<cxTick, cxFailures, cxRpcCalls>>
       ELSE /\ cxTick' = FALSE
            /\ UNCHANGED cxPollPc
            /\ IF cxFailures > 0 /\ backingOff
               THEN UNCHANGED <<cxFailures, cxRpcCalls>>
               ELSE /\ cxRpcCalls' = cxRpcCalls + 1
                    /\ cxFailures' = IF rpcOk THEN 0 ELSE Min(cxFailures + 1, MaxRpcCalls)
    /\ UNCHANGED <<cxCancelled, cxReadPc, cxPending, cxEnqueued, CancelOthers>>

\* a message of the topic reaches the subscription
MessageArrives ==
    /\ cxReadPc = "next"
    /\ ~cxCancelled
    /\ cxPending < MaxPending
    /\ cxEnqueued + cxPending < MaxPending
    /\ cxPending' = cxPending + 1
    /\ UNCHANGED <<cxCancelled, cxPollPc, cxTick, cxFailures, cxRpcCalls, cxReadPc, cxEnqueued, CancelOthers>>

\* one turn of readLoop's for: sub.Next(ctx) gives an error and the loop
\* returns when the context is cancelled, or gives a message, which the
\* loop drops (own, rate limited, undecodable, channel full) or enqueues
ReadLoopTurn(outcome, passes) ==
    /\ cxReadPc = "next"
    /\ outcome \in SubNextReady(cxCancelled, cxPending)
    /\ IF outcome = "err"
       THEN /\ cxReadPc' = "returned"
            /\ UNCHANGED <<cxPending, cxEnqueued>>
       ELSE /\ cxPending' = cxPending - 1
            /\ cxEnqueued' = IF passes THEN cxEnqueued + 1 ELSE cxEnqueued
            /\ UNCHANGED cxReadPc
    /\ UNCHANGED <<cxCancelled, cxPollPc, cxTick, cxFailures, cxRpcCalls, CancelOthers>>

CancelNext ==
    \/ \E rpcOk \in BOOLEAN : StartLoops(rpcOk)
    \/ CancelRoot
    \/ TickerFires
    \/ \E case \in {"done", "tick"}, backingOff, rpcOk \in BOOLEAN : PollLoopTurn(case, backingOff, rpcOk)
    \/ MessageArrives
    \/ \E outcome \in {"err", "msg"}, passes \in BOOLEAN : ReadLoopTurn(outcome, passes)

\* a ready case of a select that stays ready is taken in the end
SpecCancel ==
    /\ CancelInit
    /\ [][CancelNext]_vars
    /\ SF_vars(\E backingOff, rpcOk \in BOOLEAN : PollLoopTurn("done", backingOff, rpcOk))
    /\ SF_vars(\E passes \in BOOLEAN : ReadLoopTurn("err", passes))

(***************************************************************************)
(* shutdown: properties                                                    *)
(***************************************************************************)
\* both loops return once the root context is cancelled
LoopsTerminate ==
    cxCancelled ~> (cxPollPc = "returned" /\ cxReadPc = "returned")

\* C36: once the root context is cancelled, pollLoop issues no further
\* get_block_template call and readLoop enqueues no further share, and both
\* loops return
C36_CancelStopsLoops ==
    /\ [][cxCancelled => (cxRpcCalls' = cxRpcCalls /\ cxEnqueued' = cxEnqueued)]_vars
    /\ cxCancelled ~> (cxPollPc = "returned" /\ cxReadPc = "returned")

(***************************************************************************)
(* internal/work: the share chain a job embeds                             *)
(*                                                                         *)
(* GenerateJob reads the chain through two callbacks, payoutsFn and        *)
(* prevShareHashFn, one call after the other.  The node installs them;     *)
(* they are modelled as the specification names them: the current PPLNS    *)
(* payout list and the current tip-share hash.                             *)
(***************************************************************************)
\* the PPLNS window, in shares
SnapWindow == 2

SnapMiners == {1, 2}

\* the hash of the tip of the chain, 0 for the empty chain: a number that
\* differs for every chain of the model
RECURSIVE SnapTipHash(_)
SnapTipHash(chain) ==
    IF chain = <<>> THEN 0
    ELSE 3 * SnapTipHash(SubSeq(chain, 1, Len(chain) - 1)) + chain[Len(chain)]

\* the payout list at the tip of the chain: per miner of the window, its
\* number of shares in the window
SnapPayouts(chain) ==
    LET from == Max(1, Len(chain) - SnapWindow + 1)
        window == from..Len(chain)
    IN  {[Address |-> m, Shares |-> Cardinality({k \in window : chain[k] = m})] :
            m \in {chain[k] : k \in window}}

(***************************************************************************)
(* job snapshot: specification                                             *)
(***************************************************************************)
MaxSnapChain == 4

SnapOthers == <<payVars, diffVars, chainVars, merkleVars, syncVars, genVars, boltVars, stratumVars, compactVars, listenerVars, roundVars, gossipVars, submitVars, shareVars, emitVars, backoffVars, refreshVars, outageVars, notifyVars, wireVars, cancelVars, normVars>>

SnapInit == PIdle /\ DIdle /\ CIdle /\ NodeIdle

\* a share of the miner is appended and becomes the tip
SnapAppend(miner) ==
    /\ Len(snChain) < MaxSnapChain
    /\ snChain' = Append(snChain, miner)
    /\ UNCHANGED <<snCall, snJobs, SnapOthers>>

\* GenerateJob up to payouts := g.payoutsFn()
GenerateJobPayouts ==
    /\ snCall = Nil
    /\ snCall' = <<SnapPayouts(snChain)>>
    /\ UNCHANGED <<snChain, snJobs, SnapOthers>>

\* GenerateJob from prevShareHash := g.prevShareHashFn() to its return
GenerateJobTip ==
    /\ snCall # Nil
    /\ snJobs' = snJobs \cup {[payouts |-> snCall[1], prevShareHash |-> SnapTipHash(snChain)]}
    /\ snCall' = Nil
    /\ UNCHANGED <<snChain, SnapOthers>>

SnapNext ==
    \/ \E miner \in SnapMiners : SnapAppend(miner)
    \/ GenerateJobPayouts
    \/ GenerateJobTip

SpecSnapshot == SnapInit /\ [][SnapNext]_vars

(***************************************************************************)
(* job snapshot: properties                                                *)
(***************************************************************************)
\* the chains that had a tip so far
SnapTips == {SubSeq(snChain, 1, k) : k \in 0..Len(snChain)}

\* C37: the payout list and the parent-share hash of every job GenerateJob
\* returned are those of one and the same tip, also when shares are appended
\* while the job is generated
C37_JobEmbedsOneTip ==
    \A job \in snJobs :
        \E chain \in SnapTips :
            /\ job.payouts = SnapPayouts(chain)
            /\ job.prevShareHash = SnapTipHash(chain)

\* a job generated with no share appended meanwhile embeds one tip
GenerateJobAloneIsConsistent ==
    [][(snCall # Nil /\ snJobs' # snJobs /\ snCall[1] = SnapPayouts(snChain)) =>
          \A job \in snJobs' \ snJobs :
              /\ job.payouts = SnapPayouts(snChain)
              /\ job.prevShareHash = SnapTipHash(snChain)]_vars

(***************************************************************************)
(* share validation: what a call returns                                   *)
(***************************************************************************)
\* C38: every call of ValidateShare returns nil or a ValidationError; a
\* share without a share target whose hash meets the expected target gets a
\* ValidationError, not a crash
C38_ValidateShareReturns ==
    lastShare # Nil =>
        /\ lastResult = NoError \/ IsValidationError(lastResult)
        /\ lastShare[1].ShareTarget = Nil => IsValidationError(lastResult)

(***************************************************************************)
(* pkg/util: the compact round trip of a target, target -> compact ->      *)
(* target, applied twice                                                   *)
(***************************************************************************)
MaxSmallTarget == 40

\* positive targets: the small ones, the borders of one, two, three and
\* four bytes, targets with the top mantissa bit set, and share targets
NormTargets ==
    (1..MaxSmallTarget)
    \cup {127, 128, 129, 255, 256, 257, 32767, 32768, 32769, 65535, 65536, 65537,
          8388607, 8388608, 8388609, 16777215, 16777216, 16777217, 1193046,
          305419896, 2147418112, 2147483647}
    \cup {MaxShareTarget, MaxShareTarget + 255, MaxShareTarget \div 4, MaxShareTarget \div 3}
    \cup {MantissaStep * k : k \in 1..40}

NormOthers == <<payVars, diffVars, chainVars, merkleVars, syncVars, genVars, boltVars, stratumVars, compactVars, listenerVars, roundVars, gossipVars, submitVars, shareVars, emitVars, backoffVars, refreshVars, outageVars, notifyVars, wireVars, cancelVars, snapVars>>

NormInit == PIdle /\ DIdle /\ CIdle /\ NodeIdle

\* once := CompactToTarget(TargetToCompact(target))
NormalizeOnce(target) ==
    /\ nmTarget = Nil
    /\ nmTarget' = <<target>>
    /\ nmOnce' = <<Normalize(target)>>
    /\ nmTwice' = Nil
    /\ UNCHANGED NormOthers

\* twice := CompactToTarget(TargetToCompact(once))
NormalizeTwice ==
    /\ nmOnce # Nil
    /\ nmTwice = Nil
    /\ nmTwice' = <<Normalize(nmOnce[1])>>
    /\ UNCHANGED <<nmTarget, nmOnce, NormOthers>>

\* the next target
NormDone ==
    /\ nmTwice # Nil
    /\ nmTarget' = Nil
    /\ nmOnce' = Nil
    /\ nmTwice' = Nil
    /\ UNCHANGED NormOthers

NormNext ==
    \/ \E target \in NormTargets : NormalizeOnce(target)
    \/ NormalizeTwice
    \/ NormDone

SpecNormalize == NormInit /\ [][NormNext]_vars

\* C39: the compact round trip of a positive target is idempotent: applied
\* to its own result it gives that result again
C39_NormalizeIdempotent ==
    nmTwice # Nil => nmTwice[1] = nmOnce[1]

\* targets of four bytes and more are fixed by the second round trip
NormalizeIdempotentFromFourBytes ==
    (nmTwice # Nil /\ nmTarget[1] >= 16777216) => nmTwice[1] = nmOnce[1]

(***************************************************************************)
(* Payouts: the entries of the list                                        *)
(***************************************************************************)
\* C40: every entry of the list CalculatePayouts returns has an amount above
\* zero, and no two entries have the same address, whatever the window, the
\* reward, the finder fee and the dust threshold
C40_EntriesPositiveAndDistinct ==
    /\ \A i \in 1..Len(payouts) : payouts[i].Amount > 0
    /\ \A i, j \in 1..Len(payouts) : payouts[i].Address = payouts[j].Address => i = j

\* a list of two entries and more from a window in which a miner has only
\* shares of weight zero, or from a reward that is all finder fee
C40_Witness ==
    /\ PPays
    /\ Len(payouts) >= 2
    /\ \E a \in DOMAIN PWeights :
          (preward - FinderFee(preward, pcalc.finderFeeHalfPercents)) * PWeights[a] < TotalWeight(pwindow, DefaultMaxTarget)

====
